---- MODULE Spec2Model ----
(***************************************************************************)
(* A model of crd-migration-tool: the dependency graph that orders the     *)
(* resource kinds (internal/graph.go), the created-items tracker that      *)
(* rewrites owner references (internal/created_items_tracker.go) and the   *)
(* Migrator's passes over the old and the new API group.                   *)
(***************************************************************************)
EXTENDS Integers, Sequences, FiniteSets, TLC

VARIABLES
    g,        \* the graph under construction: [nodes, edges]
    gpc,      \* graph scenario position: "off" | "build" | "sorted"
    ret,      \* what graph.sort() returned: [sorted, isNil, err]
    options,  \* the Options NewMigrator was given
    m,        \* the Migrator's fields
    tracker,  \* m.createdItemsTracker
    crds,     \* the target group's CustomResourceDefinitions, by resource name
    store,    \* the items of the API server, of every group
    nextUID,  \* the UID the API server gives the next created item
    pc,       \* "off" | "new" | "idle" | "ordered" | "remaining" | "exited"
    driver,   \* the call the driver makes for every pass: [fn, resourceSet]
    pass,     \* the locals of the running MigrateAllResources/MigrateSomeResources
    calls,    \* history: the tracker and API calls of the current pass, in order
    hist,     \* history: pass counter, injected failures, state at pass start
    tt        \* one call of a helper on its own: [fn, args, returned, result]

gvars == <<g, gpc, ret>>
mvars == <<options, m, tracker, crds, store, nextUID, pc, driver, pass, calls, hist>>
vars == <<g, gpc, ret, options, m, tracker, crds, store, nextUID, pc, driver, pass, calls, hist,
          tt>>

(***************************************************************************)
(* Bounds of the model.                                                    *)
(***************************************************************************)
MaxEdges == 3
\* passes the driver runs
MaxPasses == 2
\* API calls that fail with a transient error, over a whole run
MaxFailures == 1
\* items in the old group
MaxSrcItems == 3
\* items in the new group before the first pass
MaxTargetItems == 1
\* keys of a label or annotation map handed to updateMapKeys on its own
MaxKeys == 3

\* node names of the graph scenario
GraphNodes == {"a", "b", "c"}

(***************************************************************************)
(* Helpers: Go's `for ... range` over a map visits the keys once each, in  *)
(* an order the language leaves open.                                      *)
(***************************************************************************)
Orders(S) ==
    {o \in [1..Cardinality(S) -> S] : \A i, j \in 1..Cardinality(S) : o[i] = o[j] => i = j}

(***************************************************************************)
(* graph (internal/graph.go, first file)                                   *)
(***************************************************************************)
newGraph == [nodes |-> {}, edges |-> << >>]

\* g.edges[node]; a missing key reads as the nil slice
edgesOf(gr, node) == IF node \in DOMAIN gr.edges THEN gr.edges[node] ELSE << >>

addEdge(gr, from, to) ==
    [nodes |-> gr.nodes \cup {from, to},
     edges |-> [n \in (DOMAIN gr.edges) \cup {from} |->
                  IF n = from THEN Append(edgesOf(gr, from), to) ELSE gr.edges[n]]]

newDfsSort == [temp |-> {}, permanent |-> {}, sorted |-> << >>, err |-> FALSE]

\* a mutant of prepend: the finished node is put at the back
prependAtBack(node, sorted) == Append(sorted, node)

\* d.sorted = append([]string{node}, d.sorted...)
prepend(node, sorted) == <<node>> \o sorted

\* d.temp.has(node)
inProgress(d, node) == node \in d.temp

RECURSIVE recurse(_, _, _)
RECURSIVE recurseNeighbors(_, _, _, _)

\* the loop over d.g.edges[node] in recurse; stops at the first error
recurseNeighbors(gr, d, neighbors, i) ==
    IF i > Len(neighbors) THEN d
    ELSE LET d1 == recurse(gr, d, neighbors[i])
         IN  IF d1.err THEN d1 ELSE recurseNeighbors(gr, d1, neighbors, i + 1)

recurse(gr, d, node) ==
    IF node \in d.permanent THEN d
    ELSE IF inProgress(d, node) THEN [d EXCEPT !.err = TRUE]
    ELSE LET d1 == [d EXCEPT !.temp = @ \cup {node}]
             d2 == recurseNeighbors(gr, d1, edgesOf(gr, node), 1)
         IN  IF d2.err THEN d2
             ELSE [d2 EXCEPT !.permanent = @ \cup {node},
                             !.sorted = prepend(node, @)]

\* a mutant of sortFailed: the nodes sorted so far are returned with the error
sortFailedPartial(d) == [sorted |-> d.sorted, isNil |-> FALSE, err |-> TRUE]

\* return nil, err
sortFailed(d) == [sorted |-> << >>, isNil |-> TRUE, err |-> TRUE]

RECURSIVE dfsSortLoop(_, _, _, _)
\* dfsSort.sort: the loop over d.g.nodes, visited in `order`
dfsSortLoop(gr, d, order, i) ==
    IF i > Len(order) THEN [sorted |-> d.sorted, isNil |-> FALSE, err |-> FALSE]
    ELSE IF inProgress(d, order[i]) \/ order[i] \in d.permanent
         THEN dfsSortLoop(gr, d, order, i + 1)
    ELSE LET d1 == recurse(gr, d, order[i])
         IN  IF d1.err THEN sortFailed(d1) ELSE dfsSortLoop(gr, d1, order, i + 1)

\* the value of `ret` before sort() has returned
noResult == [sorted |-> << >>, isNil |-> TRUE, err |-> FALSE]

\* graph.sort, for one order of the map iteration over g.nodes
sort(gr, order) == dfsSortLoop(gr, newDfsSort, order, 1)

\* the number of addEdge calls made on a graph
EdgeCount(gr) ==
    LET RECURSIVE Sum(_)
        Sum(S) == IF S = {} THEN 0
                  ELSE LET n == CHOOSE n \in S : TRUE
                       IN  Len(gr.edges[n]) + Sum(S \ {n})
    IN  Sum(DOMAIN gr.edges)

(***************************************************************************)
(* Maps (Go's map[string]T) as functions; a missing key is not in DOMAIN.  *)
(***************************************************************************)
EmptyMap == << >>

Put(f, k, v) == [x \in (DOMAIN f) \cup {k} |-> IF x = k THEN v ELSE f[x]]

Remove(f, k) == [x \in (DOMAIN f) \ {k} |-> f[x]]

(***************************************************************************)
(* Strings with structure are sequences of tokens: a mapping option such   *)
(* as "bar:foo" is <<"bar", ":", "foo">>, a label key such as "old.io/a"   *)
(* is <<"old.io", "/a">>.  Names (resources, kinds, namespaces, item       *)
(* names) are atomic strings.                                              *)
(***************************************************************************)
\* strings.Split(s, ":") for a string with at most one word between colons:
\* the words between the separators, "" where there is none
RECURSIVE Split(_)
Split(s) ==
    IF s = << >> THEN <<"">>
    ELSE IF s[1] = ":" THEN <<"">> \o Split(Tail(s))
    ELSE IF Len(s) = 1 THEN <<s[1]>>
    ELSE <<s[1]>> \o Split(Tail(Tail(s)))

\* a mutant of validMapping: an empty side is accepted
validMappingAnySides(parts) == Len(parts) = 2

\* the test of one entry in parseMappings: logrus.Fatalf unless it holds
validMapping(parts) == Len(parts) = 2 /\ parts[1] # "" /\ parts[2] # ""

RECURSIVE parseMappingsFrom(_, _, _)
parseMappingsFrom(in, i, out) ==
    IF i > Len(in) THEN [fatal |-> FALSE, out |-> out]
    ELSE LET parts == Split(in[i])
         IN  IF ~validMapping(parts) THEN [fatal |-> TRUE, out |-> EmptyMap]
             ELSE parseMappingsFrom(in, i + 1, Put(out, parts[1], parts[2]))

\* parseMappings(kind, in)
parseMappings(in) == parseMappingsFrom(in, 1, EmptyMap)

\* strings.Replace(s, old, new, -1) for a non-empty old
RECURSIVE ReplaceFrom(_, _, _, _)
ReplaceFrom(s, old, new, i) ==
    IF i > Len(s) THEN << >>
    ELSE IF i + Len(old) - 1 <= Len(s) /\ \A k \in 1..Len(old) : s[i + k - 1] = old[k]
         THEN new \o ReplaceFrom(s, old, new, i + Len(old))
    ELSE <<s[i]>> \o ReplaceFrom(s, old, new, i + 1)

Replace(s, old, new) == ReplaceFrom(s, old, new, 1)

(***************************************************************************)
(* updateMapKeys (internal/graph.go).  The outer loop ranges over `data`   *)
(* while the body inserts and deletes entries: Go produces each entry      *)
(* present at the start unless it is removed first, and may or may not     *)
(* produce an entry inserted on the way.  The inner loop always replaces   *)
(* in the key the outer loop produced.                                     *)
(***************************************************************************)
\* the body of the outer loop for one produced key: every pair whose find
\* occurs in key stores the value under the replaced key and deletes key
\* a mutant of renameKey: the replaced key is stored without the value
renameKeyDroppingValue(data, key, value, pairs) ==
    LET renamed == {Replace(key, find[1], find[2]) : find \in pairs} \ {key}
    IN  IF renamed = {} THEN data
        ELSE [k \in ((DOMAIN data) \ {key}) \cup renamed |->
                 IF k \in renamed THEN "" ELSE data[k]]

RECURSIVE renameKey(_, _, _, _)
renameKey(data, key, value, pairs) ==
    IF pairs = {} THEN data
    ELSE LET find == CHOOSE f \in pairs : TRUE
             updatedKey == Replace(key, find[1], find[2])
         IN  IF updatedKey # key
             THEN renameKey(Remove(Put(data, updatedKey, value), key), key, value, pairs \ {find})
             ELSE renameKey(data, key, value, pairs \ {find})

MappingPairs(mappings) == {<<f, mappings[f]>> : f \in DOMAIN mappings}

\* every map the loop can end with: `must` are the keys still to be produced,
\* `may` the inserted keys the iteration is free to produce or skip, `fuel`
\* bounds how many inserted keys are followed
RECURSIVE updateMapKeysRun(_, _, _, _, _)
updateMapKeysRun(data, mappings, must, may, fuel) ==
    LET visit(key) ==
            LET after == renameKey(data, key, data[key], MappingPairs(mappings))
                fresh == (DOMAIN after) \ (DOMAIN data)
            IN  updateMapKeysRun(after, mappings, (must \ {key}) \cap DOMAIN after,
                                 ((may \ {key}) \cap DOMAIN after) \cup fresh,
                                 IF key \in must THEN fuel ELSE fuel - 1)
    IN  (IF must = {} THEN {data} ELSE {})
        \cup UNION {visit(key) : key \in must}
        \cup (IF fuel > 0 THEN UNION {visit(key) : key \in may} ELSE {})

\* updateMapKeys(data, mappings): the maps it can return
updateMapKeys(data, mappings) ==
    updateMapKeysRun(data, mappings, DOMAIN data, {}, Cardinality(DOMAIN data) + 1)

(***************************************************************************)
(* Items (unstructured.Unstructured) and owner references                  *)
(***************************************************************************)
\* metav1.OwnerReference; `controller` stands for the fields next to
\* apiVersion, kind, name and uid (Controller, BlockOwnerDeletion)
OwnerRef(av, k, n, u) ==
    [apiVersion |-> av, kind |-> k, name |-> n, uid |-> u, controller |-> FALSE]

\* the reference of a controller
ControllerRef(av, k, n, u) == [OwnerRef(av, k, n, u) EXCEPT !.controller = TRUE]

Item(av, k, ns, n, u, rv, refs, labels, annotations, spec) ==
    [apiVersion |-> av, kind |-> k, namespace |-> ns, name |-> n, uid |-> u,
     resourceVersion |-> rv, ownerReferences |-> refs, labels |-> labels,
     annotations |-> annotations, spec |-> spec]

\* the zero Unstructured, where a call has no item
NoItem == Item("", "", "", "", 0, "", << >>, EmptyMap, EmptyMap, "")

(***************************************************************************)
(* createdItemsTracker (internal/created_items_tracker.go)                 *)
(***************************************************************************)
newCreatedItemsTracker(oldGroupVersion, newGroupVersion) ==
    [oldGroupVersion |-> oldGroupVersion, newGroupVersion |-> newGroupVersion,
     resourcesByKind |-> EmptyMap, createdItemsByKind |-> EmptyMap]

\* newCreatedItems().items
newCreatedItems == EmptyMap

\* a mutant of registerResource: records of a kind already tracked are kept
registerResourceKeeping(c, resource) ==
    [c EXCEPT !.resourcesByKind = Put(@, resource.Kind, resource),
              !.createdItemsByKind =
                  IF resource.Kind \in DOMAIN @ THEN @ ELSE Put(@, resource.Kind, newCreatedItems)]

\* a mutant of registerResource: the kind registered last is the only one
\* tracked
registerResourceAlone(c, resource) ==
    [c EXCEPT !.resourcesByKind = (resource.Kind :> resource),
              !.createdItemsByKind = (resource.Kind :> newCreatedItems)]

registerResource(c, resource) ==
    [c EXCEPT !.resourcesByKind = Put(@, resource.Kind, resource),
              !.createdItemsByKind = Put(@, resource.Kind, newCreatedItems)]

newItemInfo(item) == [name |-> item.name, uid |-> item.uid]

\* a mutant of registerCreatedItem: nothing is recorded
registerCreatedItemNever(c, item) == c

\* a mutant of registerCreatedItem: an item of a kind that is not tracked
\* starts the tracking of its kind
registerCreatedItemAnyKind(c, item) ==
    IF item.kind \notin DOMAIN c.createdItemsByKind
    THEN [c EXCEPT !.createdItemsByKind = Put(@, item.kind, Put(EmptyMap, item.name, newItemInfo(item)))]
    ELSE [c EXCEPT !.createdItemsByKind[item.kind] = Put(@, item.name, newItemInfo(item))]

\* createdItemsTracker.registerCreatedItem, with createdItems.registerCreatedItem
registerCreatedItem(c, item) ==
    IF item.kind \notin DOMAIN c.createdItemsByKind THEN c
    ELSE [c EXCEPT !.createdItemsByKind[item.kind] = Put(@, item.name, newItemInfo(item))]

\* a mutant of updateOwnerRef: the apiVersion is rewritten, the UID is kept
updateOwnerRefKeepingUID(c, ownerRef) ==
    IF ownerRef.apiVersion # c.oldGroupVersion THEN ownerRef
    ELSE IF ownerRef.kind \notin DOMAIN c.createdItemsByKind THEN ownerRef
    ELSE IF ownerRef.name \notin DOMAIN c.createdItemsByKind[ownerRef.kind] THEN ownerRef
    ELSE [ownerRef EXCEPT !.apiVersion = c.newGroupVersion]

\* the body of the loop of updateOwnerRefs, for one reference
updateOwnerRef(c, ownerRef) ==
    IF ownerRef.apiVersion # c.oldGroupVersion THEN ownerRef
    ELSE IF ownerRef.kind \notin DOMAIN c.createdItemsByKind THEN ownerRef
    ELSE IF ownerRef.name \notin DOMAIN c.createdItemsByKind[ownerRef.kind] THEN ownerRef
    ELSE [ownerRef EXCEPT !.apiVersion = c.newGroupVersion,
                          !.uid = c.createdItemsByKind[ownerRef.kind][ownerRef.name].uid]

\* a mutant of updateOwnerRefs: only the rewritten references are appended
updateOwnerRefsRewrittenOnly(c, item) ==
    [item EXCEPT !.ownerReferences =
        SelectSeq([i \in 1..Len(item.ownerReferences) |->
                       updateOwnerRef(c, item.ownerReferences[i])],
                  LAMBDA ref : ref.apiVersion # c.oldGroupVersion)]

\* createdItemsTracker.updateOwnerRefs: the item with its references rewritten
updateOwnerRefs(c, item) ==
    [item EXCEPT !.ownerReferences =
        [i \in 1..Len(item.ownerReferences) |-> updateOwnerRef(c, item.ownerReferences[i])]]

\* a mutant of lookedUp: looking up a kind that is not tracked starts to
\* track it
lookedUpTracking(c, ownerRef) ==
    IF ownerRef.apiVersion = c.oldGroupVersion /\ ownerRef.kind \notin DOMAIN c.createdItemsByKind
    THEN [c EXCEPT !.createdItemsByKind = Put(@, ownerRef.kind, newCreatedItems)]
    ELSE c

\* the tracker after the loop body of updateOwnerRefs for one reference:
\* c.createdItemsByKind[ownerRef.Kind] and byKind.getByName(ownerRef.Name)
\* index Go maps on the right-hand side, which adds no entry
lookedUp(c, ownerRef) == c

\* the tracker after updateOwnerRefs has gone through the references from
\* the i-th on
RECURSIVE afterUpdateOwnerRefs(_, _, _)
afterUpdateOwnerRefs(c, ownerRefs, i) ==
    IF i > Len(ownerRefs) THEN c
    ELSE afterUpdateOwnerRefs(lookedUp(c, ownerRefs[i]), ownerRefs, i + 1)

(***************************************************************************)
(* The Migrator's helpers (internal/graph.go, second file)                 *)
(***************************************************************************)
\* a mutant of getTargetNamespace: the mapping is never applied
getTargetNamespaceUnmapped(mig, original) == original

\* a mutant of getTargetNamespace: the mapping is applied to its own result
getTargetNamespaceTwice(mig, original) ==
    LET once == IF original \in DOMAIN mig.namespaceMappings
                THEN mig.namespaceMappings[original] ELSE original
    IN  IF once \in DOMAIN mig.namespaceMappings THEN mig.namespaceMappings[once] ELSE once

getTargetNamespace(mig, original) ==
    IF original \in DOMAIN mig.namespaceMappings THEN mig.namespaceMappings[original]
    ELSE original

\* a mutant of newGVR: the items are written to the old group
newGVROld(mig, resourceName) == [gv |-> mig.oldGroupVersion, resource |-> resourceName]

\* m.newGroupVersion.WithResource(resourceName)
newGVR(mig, resourceName) == [gv |-> mig.newGroupVersion, resource |-> resourceName]

\* m.oldGroupVersion.WithResource(resource.Name)
oldGVR(mig, resourceName) == [gv |-> mig.oldGroupVersion, resource |-> resourceName]

\* clientForItem: the client of one namespace, or of the cluster scope when
\* the namespace is empty
clientForItem(gvr, namespace) == [gv |-> gvr.gv, resource |-> gvr.resource, namespace |-> namespace]

\* a mutant of prepareForCreate: the resourceVersion is not cleared
prepareForCreateKeepingVersion(mig, c, item) ==
    LET i1 == [item EXCEPT !.apiVersion = mig.newGroupVersion]
        i3 == [i1 EXCEPT !.namespace = getTargetNamespace(mig, i1.namespace)]
    IN  {updateOwnerRefs(c, [i3 EXCEPT !.annotations = a, !.labels = l]) :
            a \in (IF Cardinality(DOMAIN mig.annotationMappings) > 0
                   THEN updateMapKeys(i3.annotations, mig.annotationMappings)
                   ELSE {i3.annotations}),
            l \in (IF Cardinality(DOMAIN mig.labelMappings) > 0
                   THEN updateMapKeys(i3.labels, mig.labelMappings)
                   ELSE {i3.labels})}

\* a mutant of prepareForCreate: the namespace of the item is left as it is
prepareForCreateKeepingNamespace(mig, c, item) ==
    LET i1 == [item EXCEPT !.apiVersion = mig.newGroupVersion]
        i2 == [i1 EXCEPT !.resourceVersion = ""]
    IN  {updateOwnerRefs(c, [i2 EXCEPT !.annotations = a, !.labels = l]) :
            a \in (IF Cardinality(DOMAIN mig.annotationMappings) > 0
                   THEN updateMapKeys(i2.annotations, mig.annotationMappings)
                   ELSE {i2.annotations}),
            l \in (IF Cardinality(DOMAIN mig.labelMappings) > 0
                   THEN updateMapKeys(i2.labels, mig.labelMappings)
                   ELSE {i2.labels})}

\* prepareForCreate: the items it can leave in `item` (one, unless the key
\* rewriting has several outcomes)
prepareForCreate(mig, c, item) ==
    LET i1 == [item EXCEPT !.apiVersion = mig.newGroupVersion]
        i2 == [i1 EXCEPT !.resourceVersion = ""]
        i3 == [i2 EXCEPT !.namespace = getTargetNamespace(mig, i2.namespace)]
    IN  {updateOwnerRefs(c, [i3 EXCEPT !.annotations = a, !.labels = l]) :
            a \in (IF Cardinality(DOMAIN mig.annotationMappings) > 0
                   THEN updateMapKeys(i3.annotations, mig.annotationMappings)
                   ELSE {i3.annotations}),
            l \in (IF Cardinality(DOMAIN mig.labelMappings) > 0
                   THEN updateMapKeys(i3.labels, mig.labelMappings)
                   ELSE {i3.labels})}

RECURSIVE addEdges(_, _, _)
\* the loop of calculateResourcePriorities: one addEdge per entry of the map
\* (every parent has one child, so the graph is the same in every order)
addEdges(gr, parentChildMappings, parents) ==
    IF parents = {} THEN gr
    ELSE LET parent == CHOOSE p \in parents : TRUE
         IN  addEdges(addEdge(gr, parent, parentChildMappings[parent]),
                      parentChildMappings, parents \ {parent})

mappingGraph(parentChildMappings) ==
    addEdges(newGraph, parentChildMappings, DOMAIN parentChildMappings)

\* calculateResourcePriorities, for one order of the iteration over g.nodes
\* a mutant of calculateResourcePriorities: the sorted names are returned
\* last first
calculateResourcePrioritiesReversed(parentChildMappings, order) ==
    LET r == sort(mappingGraph(parentChildMappings), order)
    IN  [r EXCEPT !.sorted = [i \in 1..Len(r.sorted) |-> r.sorted[Len(r.sorted) + 1 - i]]]

calculateResourcePriorities(parentChildMappings, order) ==
    sort(mappingGraph(parentChildMappings), order)

(***************************************************************************)
(* The API server: discovery, the CRDs of the target group and the items   *)
(* of every group.  The dynamic client's Get, List and Create act on       *)
(* `store`; any call can also fail with a transient error.                 *)
(***************************************************************************)
OldGV == "old/v1"
NewGV == "new/v1"
AltGV == "altgroup/v1"

\* ServerResourcesForGroupVersion(old group): the kinds of the old group
APIResources ==
    {[Name |-> "bar", Kind |-> "Bar"], [Name |-> "baz", Kind |-> "Baz"],
     [Name |-> "foo", Kind |-> "Foo"]}

\* the zero metav1.APIResource, read from a map that lacks the key
NoResource == [Name |-> "", Kind |-> ""]

Entry(gv, resource, obj) ==
    [gv |-> gv, resource |-> resource, namespace |-> obj.namespace, name |-> obj.name,
     obj |-> obj]

\* ResourceInterface.Get(name): the stored entries under the client's group,
\* resource and namespace with that name (none, or one)
storeGet(st, client, name) ==
    {e \in st : /\ e.gv = client.gv
                /\ e.resource = client.resource
                /\ e.namespace = client.namespace
                /\ e.name = name}

\* ResourceInterface.List of a client without namespace: the items of all
\* namespaces
storeList(st, gvr) == {e.obj : e \in {x \in st : x.gv = gvr.gv /\ x.resource = gvr.resource}}

\* ResourceInterface.Create(item): the server refuses a name already taken
\* and a namespace that is not the client's; it assigns the UID and the
\* resourceVersion
storeCreate(st, client, item, uid) ==
    IF storeGet(st, client, item.name) # {} \/ item.namespace # client.namespace
    THEN [err |-> TRUE, obj |-> NoItem, store |-> st]
    ELSE LET created == [item EXCEPT !.uid = uid, !.resourceVersion = "rv-new"]
         IN  [err |-> FALSE, obj |-> created,
              store |-> st \cup {Entry(client.gv, client.resource, created)}]

\* the items the old group can hold
SourceItems ==
    {Entry(OldGV, "bar", Item(OldGV, "Bar", "ns1", "a", 1, "rv-old", << >>, EmptyMap, EmptyMap, "bar-1")),
     Entry(OldGV, "bar", Item(OldGV, "Bar", "ns2", "a", 2, "rv-old", << >>, EmptyMap, EmptyMap, "bar-2")),
     Entry(OldGV, "foo", Item(OldGV, "Foo", "ns1", "x", 3, "rv-old",
                              <<OwnerRef(OldGV, "Bar", "a", 1), OwnerRef(OldGV, "Baz", "b", 5)>>,
                              (<<"old.io", "/a">> :> "v1") @@ (<<"plain">> :> "v2"),
                              (<<"old.io", "/n">> :> "w"), "foo-3")),
     Entry(OldGV, "foo", Item(OldGV, "Foo", "ns2", "y", 4, "rv-old",
                              <<OwnerRef(AltGV, "Blue", "a", 9), ControllerRef(OldGV, "Bar", "a", 2),
                                OwnerRef(OldGV, "Bar", "zz", 8)>>,
                              EmptyMap, EmptyMap, "foo-4")),
     Entry(OldGV, "baz", Item(OldGV, "Baz", "", "b", 5, "rv-old", << >>, EmptyMap, EmptyMap, "baz-5"))}

\* the items the new group can hold before the first pass
TargetItems ==
    {Entry(NewGV, "bar", Item(NewGV, "Bar", "ns2", "a", 11, "rv-new", << >>, EmptyMap, EmptyMap, "pre-11")),
     Entry(NewGV, "foo", Item(NewGV, "Foo", "ns1", "x", 12, "rv-new",
                              <<OwnerRef(OldGV, "Bar", "a", 1)>>, EmptyMap, EmptyMap, "pre-12"))}

\* --update-owner-refs, as given on the command line
OwnerRefOptions ==
    {<< >>,
     <<<<"bar", ":", "foo">>>>,
     <<<<"bar", ":", "foo">>, <<"baz", ":", "foo">>>>,
     <<<<"bar", ":", "foo">>, <<"bar", ":", "baz">>>>,
     <<<<"foo", ":", "foo">>>>,
     <<<<"bar", ":", "foo">>, <<"foo", ":", "bar">>>>,
     <<<<"bar", ":", "qux">>>>,
     <<<<"baz", ":", "foo">>, <<"bar", ":", "qux">>>>,
     <<<<"bar", ":", "foo">>, <<"bar", ":", "baz">>, <<"foo", ":", "baz">>>>}

\* --namespace-mappings, parsed
NamespaceMappingOptions == {EmptyMap, "ns1" :> "ns2"}

\* --label-mappings, parsed
LabelMappings == <<"old.io">> :> <<"new.io">>

\* the CRDs of the new group: whether each declares spec.subresources.status
CrdOptions ==
    {[n \in {"bar", "baz", "foo"} |-> "plain"],
     [n \in {"bar", "baz", "foo"} |-> IF n = "bar" THEN "status" ELSE "plain"]}

\* a stringSet, nil or not
NilSet == [isNil |-> TRUE, set |-> {}]

\* internal.New(values, ","): nil for the empty string
ResourceSetOptions ==
    {NilSet, [isNil |-> FALSE, set |-> {"foo"}], [isNil |-> FALSE, set |-> {"bar", "qux"}]}

\* --update-owner-refs with an entry parseMappings refuses: no colon, two
\* colons, an empty side, an empty entry, before or after a good entry
MalformedOwnerRefOptions ==
    {<<<<"bar">>>>,
     <<<<"bar", ":", "foo", ":", "baz">>>>,
     <<<<":", "foo">>>>,
     <<<<"bar", ":">>>>,
     <<<< >>>>,
     <<<<"bar", ":", "foo">>, <<"baz">>>>,
     <<<<"bar", ":">>, <<"bar", ":", "foo">>>>}

\* an option whose first two pairs name the same parent
SharedOwnerOption == <<<<"bar", ":", "foo">>, <<"bar", ":", "baz">>, <<"foo", ":", "baz">>>>

\* the options with no cycle and no unknown resource, each parent once
PlainOwnerRefOptions ==
    {<< >>,
     <<<<"bar", ":", "foo">>>>,
     <<<<"bar", ":", "foo">>, <<"baz", ":", "foo">>>>}

\* the call the driver repeats
PassArgs ==
    {[fn |-> "MigrateAllResources", resourceSet |-> NilSet]}
    \cup {[fn |-> "MigrateSomeResources", resourceSet |-> rs] : rs \in ResourceSetOptions}

NoArgs == [fn |-> "", resourceSet |-> NilSet]

\* no helper is called on its own
NoCall == [fn |-> "", args |-> << >>, returned |-> FALSE, result |-> << >>]

NoPass ==
    [fn |-> "", resourceSet |-> NilSet, resourcePriorities |-> << >>, i |-> 1,
     serverResourcesByName |-> EmptyMap, todo |-> {}, busy |-> FALSE, resource |-> NoResource,
     list |-> << >>, j |-> 1]

\* one entry of the history of calls
Call(op, resource, namespace, name, res, src, obj, out) ==
    [op |-> op, resource |-> resource, namespace |-> namespace, name |-> name, res |-> res,
     src |-> src, obj |-> obj, out |-> out]

\* a call about a kind, not about an item
KindCall(op, resource, res) == Call(op, resource, "", "", res, NoItem, NoItem, NoItem)

\* The scenarios of the model.  The owner mapping, the namespace mapping and
\* the items of both groups vary together.  A CRD with a status subresource,
\* a transient failure, a driver other than MigrateAllResources and a new
\* group equal to the old one are each explored with the other three at
\* their default and with no item in the new group.
Scenario(opt, ns, crd, pre, args, budget, newGV) ==
    LET special == {x \in {"crd", "fault", "driver", "group"} :
                      \/ x = "crd" /\ \E n \in DOMAIN crd : crd[n] # "plain"
                      \/ x = "fault" /\ budget > 0
                      \/ x = "driver" /\ args.fn # "MigrateAllResources"
                      \/ x = "group" /\ newGV = OldGV}
    IN  /\ Cardinality(special) <= 1
        /\ special # {} => pre = {}
        /\ special \notin {{}, {"driver"}} =>
               \/ opt \in PlainOwnerRefOptions
               \/ special = {"fault"} /\ opt = SharedOwnerOption
        /\ opt = SharedOwnerOption => special \in {{}, {"fault"}} /\ pre = {} /\ ns = EmptyMap
        /\ special \notin {{}, {"group"}} => ns = EmptyMap
        /\ special = {"group"} => opt = << >>
        /\ opt \in MalformedOwnerRefOptions => special = {} /\ pre = {} /\ ns = EmptyMap

\* the process has read its flags and is about to call NewMigrator; the two
\* groups hold the items the scenario gives them, and the driver is to call
\* one of passArgs
Started(passArgs) ==
    /\ g = newGraph
    /\ gpc = "off"
    /\ ret = noResult
    /\ \E opt \in OwnerRefOptions \cup MalformedOwnerRefOptions, ns \in NamespaceMappingOptions, crd \in CrdOptions,
          src \in SUBSET SourceItems, pre \in SUBSET TargetItems, args \in passArgs,
          budget \in {0, MaxFailures}, newGV \in {NewGV, OldGV} :
          /\ Cardinality(src) <= MaxSrcItems
          /\ Cardinality(pre) <= MaxTargetItems
          /\ Scenario(opt, ns, crd, pre, args, budget, newGV)
          /\ options = [OldGroupVersion |-> OldGV, NewGroupVersion |-> newGV,
                        UpdateOwnerRefMappings |-> opt]
          /\ m = [oldGroupVersion |-> OldGV, newGroupVersion |-> newGV,
                  namespaceMappings |-> ns, labelMappings |-> LabelMappings,
                  annotationMappings |-> EmptyMap,
                  updateOwnerRefMappings |-> EmptyMap]
          /\ tracker = newCreatedItemsTracker(OldGV, newGV)
          /\ crds = crd
          /\ store = src \cup pre
          /\ driver = args
          /\ hist = [passNo |-> 0, failures |-> 0, budget |-> budget, clean |-> TRUE,
                     prevClean |-> FALSE, startStore |-> src \cup pre,
                     startTracker |-> newCreatedItemsTracker(OldGV, newGV)]
    /\ nextUID = 21
    /\ pc = "new"
    /\ pass = NoPass
    /\ calls = << >>

Init ==
    /\ Started(PassArgs)
    /\ tt = NoCall

\* NewMigrator(options): parseMappings exits the process on an entry it
\* refuses, otherwise the Migrator holds the parsed map
NewMigrator ==
    /\ pc = "new"
    /\ LET parsed == parseMappings(options.UpdateOwnerRefMappings)
       IN  IF parsed.fatal
           THEN pc' = "exited" /\ UNCHANGED m
           ELSE /\ pc' = "idle"
                /\ m' = [m EXCEPT !.updateOwnerRefMappings = parsed.out]
    /\ UNCHANGED <<tt, g, gpc, ret, options, tracker, crds, store, nextUID, driver, pass,
                   calls, hist>>

(***************************************************************************)
(* MigrateAllResources and MigrateSomeResources up to their first loop     *)
(***************************************************************************)
\* serverResourcesByName as built from the discovered resources
discovered == [n \in {r.Name : r \in APIResources} |-> CHOOSE r \in APIResources : r.Name = n]

\* serverResourcesByName[resourceName]
lookup(byName, resourceName) ==
    IF resourceName \in DOMAIN byName THEN byName[resourceName] ELSE NoResource

\* the orderings calculateResourcePriorities can return for a mapping, one
\* for each order of the iteration over the nodes
priorityOutcomesOf(parentChildMappings) ==
    {calculateResourcePriorities(parentChildMappings, o) :
        o \in Orders(mappingGraph(parentChildMappings).nodes)}

\* the same, computed once for every mapping a Migrator can be built with
priorityOutcomesByMapping ==
    [mappings \in {parseMappings(opt).out : opt \in OwnerRefOptions}
        |-> priorityOutcomesOf(mappings)]

\* the orderings calculateResourcePriorities can return for the mapping
priorityOutcomes == priorityOutcomesByMapping[m.updateOwnerRefMappings]

\* a mutant of cycleFound: the error of calculateResourcePriorities is ignored
cycleIgnored(r) == FALSE

\* err != nil after calculateResourcePriorities
cycleFound(r) == r.err

\* a mutant of unknownResource: only the first name of the ordering is checked
unknownFirstResource(resourcePriorities, byName) ==
    Len(resourcePriorities) > 0 /\ resourcePriorities[1] \notin DOMAIN byName

\* the check of every name of the ordering against serverResourcesByName
unknownResource(resourcePriorities, byName) ==
    \E i \in 1..Len(resourcePriorities) : resourcePriorities[i] \notin DOMAIN byName

\* a mutant of canStart: the driver calls the pass once
canStartOnce == pc = "idle" /\ hist.passNo < 1

\* a mutant of canStart: the driver calls the pass at every tick, whether or
\* not the last call has returned
canStartEveryTick == pc \in {"idle", "ordered", "remaining"} /\ hist.passNo < MaxPasses

\* wait.Until calls the pass again after the pass has returned
canStart == pc = "idle" /\ hist.passNo < MaxPasses

\* the history at the start of a pass
started ==
    [hist EXCEPT !.prevClean = (hist.passNo > 0 /\ hist.clean),
                 !.clean = TRUE, !.startStore = store, !.startTracker = tracker]

\* a call may fail with a transient error
mayFail == hist.failures < hist.budget

failed(h) == [h EXCEPT !.failures = @ + 1, !.clean = FALSE]

\* ServerResourcesForGroupVersion fails: log.Fatal ends the process
MigrateDiscoveryFatal ==
    /\ canStart
    /\ mayFail
    /\ hist' = failed(started)
    /\ pc' = "exited"
    /\ calls' = << >>
    /\ UNCHANGED <<tt, g, gpc, ret, options, m, tracker, crds, store, nextUID, driver, pass>>

\* "--update-owner-refs contains a cycle": log.Fatal ends the process
MigrateCycleFatal ==
    /\ canStart
    /\ \E r \in priorityOutcomes : cycleFound(r)
    /\ hist' = started
    /\ pc' = "exited"
    /\ calls' = << >>
    /\ UNCHANGED <<tt, g, gpc, ret, options, m, tracker, crds, store, nextUID, driver, pass>>

\* "unable to find resource": log.Fatalf ends the process
MigrateUnknownFatal ==
    /\ canStart
    /\ \E r \in priorityOutcomes :
          /\ ~cycleFound(r)
          /\ unknownResource(r.sorted, discovered)
    /\ hist' = started
    /\ pc' = "exited"
    /\ calls' = << >>
    /\ UNCHANGED <<tt, g, gpc, ret, options, m, tracker, crds, store, nextUID, driver, pass>>

\* the checks pass: the loop over resourcePriorities starts
MigrateStart ==
    /\ canStart
    /\ \E r \in priorityOutcomes :
          /\ ~cycleFound(r)
          /\ ~unknownResource(r.sorted, discovered)
          /\ pass' = [NoPass EXCEPT !.fn = driver.fn, !.resourceSet = driver.resourceSet,
                                    !.resourcePriorities = r.sorted,
                                    !.serverResourcesByName = discovered]
    /\ hist' = started
    /\ pc' = "ordered"
    /\ calls' = << >>
    /\ UNCHANGED <<tt, g, gpc, ret, options, m, tracker, crds, store, nextUID, driver>>

(***************************************************************************)
(* The graph scenario: edges are added one by one, then the graph is       *)
(* sorted (TestGraph, TestGraphWithCycle).                                 *)
(***************************************************************************)
GraphInit ==
    /\ g = newGraph
    /\ gpc = "build"
    /\ ret = noResult
    /\ options = [OldGroupVersion |-> "", NewGroupVersion |-> "",
                  UpdateOwnerRefMappings |-> << >>]
    /\ m = [oldGroupVersion |-> "", newGroupVersion |-> "", namespaceMappings |-> EmptyMap,
            labelMappings |-> EmptyMap, annotationMappings |-> EmptyMap,
            updateOwnerRefMappings |-> EmptyMap]
    /\ tracker = newCreatedItemsTracker("", "")
    /\ crds = EmptyMap
    /\ store = {}
    /\ nextUID = 21
    /\ pc = "off"
    /\ driver = NoArgs
    /\ pass = NoPass
    /\ calls = << >>
    /\ hist = [passNo |-> 0, failures |-> 0, budget |-> 0, clean |-> TRUE,
               prevClean |-> FALSE, startStore |-> {},
               startTracker |-> newCreatedItemsTracker("", "")]
    /\ tt = NoCall

GraphAddEdge ==
    /\ gpc = "build"
    /\ EdgeCount(g) < MaxEdges
    /\ \E from \in GraphNodes, to \in GraphNodes : g' = addEdge(g, from, to)
    /\ UNCHANGED <<gpc, ret>>
    /\ UNCHANGED <<mvars, tt>>

GraphSort ==
    /\ gpc = "build"
    /\ \E order \in Orders(g.nodes) : ret' = sort(g, order)
    /\ gpc' = "sorted"
    /\ UNCHANGED g
    /\ UNCHANGED <<mvars, tt>>

GraphNext == GraphAddEdge \/ GraphSort

SpecSort == GraphInit /\ [][GraphNext]_vars

(***************************************************************************)
(* The helpers called on their own, as the table tests of                  *)
(* internal/migrator_test.go call them: one call per behaviour, its        *)
(* arguments chosen at the start.                                          *)
(***************************************************************************)
\* the label and annotation keys of the table, and the value under each
KeyUniverse ==
    {<<"foo.io", "/a">>, <<"a.", "foo.io">>, <<"no.match">>, <<"bar.io", "/a">>,
     <<"a.", "baz.io">>, <<"foo.io", ".", "baz.io">>}

ValueOf(key) ==
    CASE key = <<"foo.io", "/a">> -> "v1"
      [] key = <<"a.", "foo.io">> -> "v2"
      [] key = <<"no.match">> -> "v3"
      [] key = <<"bar.io", "/a">> -> "v4"
      [] key = <<"foo.io", ".", "baz.io">> -> "v6"
      [] OTHER -> "v5"

\* `original` of the table: nil, or a map with up to MaxKeys keys
OriginalMaps ==
    {[isNil |-> TRUE, data |-> EmptyMap]}
    \cup {[isNil |-> FALSE, data |-> [k \in keys |-> ValueOf(k)]] :
            keys \in {K \in SUBSET KeyUniverse : Cardinality(K) <= MaxKeys}}

\* the find:replace pairs of the table
KeyMappings ==
    {EmptyMap,
     <<"foo.io">> :> <<"bar.io">>,
     (<<"foo.io">> :> <<"bar.io">>) @@ (<<"baz.io">> :> <<"zoo.io">>),
     (<<"foo.io">> :> <<"bar.io">>) @@ (<<"bar.io">> :> <<"zoo.io">>)}

\* the namespace mappings and the namespaces of the table
NamespaceTables ==
    {EmptyMap, "ns1" :> "ns2", ("ns1" :> "ns2") @@ ("ns2" :> "ns3"),
     ("ns1" :> "ns2") @@ ("ns3" :> "ns1")}

Namespaces == {"", "ns1", "ns2", "ns3"}

\* the trackers updateOwnerRefs is called on: some of the kinds bar and baz
\* registered, some of the new items of these kinds recorded
RECURSIVE registerAll(_, _)
registerAll(c, resources) ==
    IF resources = {} THEN c
    ELSE LET r == CHOOSE x \in resources : TRUE
         IN  registerAll(registerResource(c, r), resources \ {r})

RECURSIVE recordAll(_, _)
recordAll(c, items) ==
    IF items = {} THEN c
    ELSE LET item == CHOOSE x \in items : TRUE
         IN  recordAll(registerCreatedItem(c, item), items \ {item})

CreatedOwners ==
    {Item(NewGV, "Bar", "ns1", "a", 21, "rv-new", << >>, EmptyMap, EmptyMap, "bar-1"),
     Item(NewGV, "Baz", "", "b", 22, "rv-new", << >>, EmptyMap, EmptyMap, "baz-5")}

TrackerTable ==
    {recordAll(registerAll(newCreatedItemsTracker(OldGV, NewGV), resources), items) :
        resources \in SUBSET {r \in APIResources : r.Name \in {"bar", "baz"}},
        items \in SUBSET CreatedOwners}

\* the items updateOwnerRefs is called on: the source items, and one whose
\* references name a kind of the old group that is never tracked, a name
\* that is never recorded and a recorded owner
ItemTable ==
    {e.obj : e \in SourceItems}
    \cup {Item(OldGV, "Foo", "ns1", "w", 6, "rv-old",
                <<OwnerRef(OldGV, "Qux", "q", 7), OwnerRef(OldGV, "Bar", "zz", 8),
                  ControllerRef(OldGV, "Bar", "a", 1)>>,
                EmptyMap, EmptyMap, "foo-6")}

\* every variable of the passes and of the graph at rest
AtRest ==
    /\ g = newGraph
    /\ gpc = "off"
    /\ ret = noResult
    /\ options = [OldGroupVersion |-> "", NewGroupVersion |-> "",
                  UpdateOwnerRefMappings |-> << >>]
    /\ m = [oldGroupVersion |-> "", newGroupVersion |-> "", namespaceMappings |-> EmptyMap,
            labelMappings |-> EmptyMap, annotationMappings |-> EmptyMap,
            updateOwnerRefMappings |-> EmptyMap]
    /\ tracker = newCreatedItemsTracker("", "")
    /\ crds = EmptyMap
    /\ store = {}
    /\ nextUID = 21
    /\ pc = "off"
    /\ driver = NoArgs
    /\ pass = NoPass
    /\ calls = << >>
    /\ hist = [passNo |-> 0, failures |-> 0, budget |-> 0, clean |-> TRUE,
               prevClean |-> FALSE, startStore |-> {},
               startTracker |-> newCreatedItemsTracker("", "")]

CallInit ==
    /\ AtRest
    /\ \/ \E original \in OriginalMaps, mappings \in KeyMappings :
              tt = [fn |-> "updateMapKeys",
                    args |-> [isNil |-> original.isNil, data |-> original.data,
                              mappings |-> mappings],
                    returned |-> FALSE, result |-> << >>]
       \/ \E mappings \in NamespaceTables, original \in Namespaces :
              tt = [fn |-> "getTargetNamespace",
                    args |-> [namespaceMappings |-> mappings, original |-> original],
                    returned |-> FALSE, result |-> << >>]
       \/ \E c \in TrackerTable, item \in ItemTable :
              tt = [fn |-> "updateOwnerRefs", args |-> [c |-> c, item |-> item],
                    returned |-> FALSE, result |-> << >>]
       \/ \E original \in OriginalMaps, mappings \in KeyMappings :
              tt = [fn |-> "updateMapKeysTwice",
                    args |-> [isNil |-> original.isNil, data |-> original.data,
                              mappings |-> mappings],
                    returned |-> FALSE, result |-> << >>]

\* updated := updateMapKeys(tt.original, mappings): the function ranges over
\* `data` and returns `data`, so a nil map comes back nil
CallUpdateMapKeys ==
    /\ tt.fn = "updateMapKeys"
    /\ ~tt.returned
    /\ \E updated \in updateMapKeys(tt.args.data, tt.args.mappings) :
          tt' = [tt EXCEPT !.returned = TRUE,
                           !.result = [isNil |-> tt.args.isNil, data |-> updated]]
    /\ UNCHANGED <<gvars, mvars>>

\* m.getTargetNamespace(original) of a Migrator with these namespaceMappings
CallGetTargetNamespace ==
    /\ tt.fn = "getTargetNamespace"
    /\ ~tt.returned
    /\ tt' = [tt EXCEPT !.returned = TRUE,
                        !.result = getTargetNamespace(
                                       [namespaceMappings |-> tt.args.namespaceMappings],
                                       tt.args.original)]
    /\ UNCHANGED <<gvars, mvars>>

\* two runs of updateMapKeys, each on its own copy of the same map with the
\* same mappings: the step is one run, tt.result holds the maps returned so
\* far
CallUpdateMapKeysTwice ==
    /\ tt.fn = "updateMapKeysTwice"
    /\ ~tt.returned
    /\ \E updated \in updateMapKeys(tt.args.data, tt.args.mappings) :
          tt' = [tt EXCEPT !.returned = (Len(tt.result) = 1),
                           !.result = Append(@, [isNil |-> tt.args.isNil, data |-> updated])]
    /\ UNCHANGED <<gvars, mvars>>

\* c.updateOwnerRefs(item): the result holds the tracker and the item as the
\* call leaves them
CallUpdateOwnerRefs ==
    /\ tt.fn = "updateOwnerRefs"
    /\ ~tt.returned
    /\ tt' = [tt EXCEPT !.returned = TRUE,
                        !.result = [c |-> afterUpdateOwnerRefs(tt.args.c,
                                                               tt.args.item.ownerReferences, 1),
                                    item |-> updateOwnerRefs(tt.args.c, tt.args.item)]]
    /\ UNCHANGED <<gvars, mvars>>

CallNext ==
    \/ CallUpdateMapKeys
    \/ CallGetTargetNamespace
    \/ CallUpdateMapKeysTwice
    \/ CallUpdateOwnerRefs

SpecCalls == CallInit /\ [][CallNext]_vars

(***************************************************************************)
(* migrateOneResource and migrateOneResourceInstance                       *)
(***************************************************************************)
\* a mutant of selected: the inclusion set is not looked at
selectedAlways(p, name) == TRUE

\* a mutant of selected: a nil inclusion set selects nothing
selectedNilIsEmpty(p, name) ==
    p.fn = "MigrateAllResources" \/ (~p.resourceSet.isNil /\ name \in p.resourceSet.set)

\* nil == resourceSet || resourceSet.has(name); MigrateAllResources has no test
selected(p, name) ==
    p.fn = "MigrateAllResources" \/ p.resourceSet.isNil \/ name \in p.resourceSet.set

\* a mutant of validateNewCRD: the status subresource is not looked at
validateNewCRDAnyCRD(resource) ==
    IF resource.Name \notin DOMAIN crds THEN "error" ELSE "ok"

\* validateNewCRD once the Get of the CRD has answered: the CRD is missing,
\* or declares spec.subresources.status, or is fine
validateNewCRD(resource) ==
    IF resource.Name \notin DOMAIN crds THEN "error"
    ELSE IF crds[resource.Name] = "status" THEN "status"
    ELSE "ok"

\* the loop over list.Items starts on `list` for the kind `resource`
listing(resource, list) ==
    [pass EXCEPT !.busy = TRUE, !.resource = resource, !.list = list, !.j = 1]

\* migrateOneResource up to its loop: the new CRD is validated and the items
\* of the old group are listed; an error ends the kind with no item
MigrateOneResource(resource, trk, log) ==
    /\ tracker' = trk
    /\ \/ /\ mayFail
          /\ hist' = failed(hist)
          /\ calls' = Append(log, KindCall("getCRD", resource.Name, "error"))
          /\ pass' = listing(resource, << >>)
       \/ /\ validateNewCRD(resource) # "ok"
          /\ calls' = Append(log, KindCall("getCRD", resource.Name, validateNewCRD(resource)))
          /\ pass' = listing(resource, << >>)
          /\ UNCHANGED hist
       \/ /\ validateNewCRD(resource) = "ok"
          /\ mayFail
          /\ hist' = failed(hist)
          /\ calls' = log \o <<KindCall("getCRD", resource.Name, "ok"),
                               KindCall("list", resource.Name, "error")>>
          /\ pass' = listing(resource, << >>)
       \/ /\ validateNewCRD(resource) = "ok"
          /\ \E list \in Orders(storeList(store, oldGVR(m, resource.Name))) :
                pass' = listing(resource, list)
          /\ calls' = log \o <<KindCall("getCRD", resource.Name, "ok"),
                               KindCall("list", resource.Name, "ok")>>
          /\ UNCHANGED hist
    /\ UNCHANGED <<tt, g, gpc, ret, options, m, crds, store, nextUID, pc, driver>>

\* one round of the loop over resourcePriorities, up to the loop over the
\* items of the kind
\* a mutant of deleteProcessed: the name stays in the map
deleteProcessedNever(serverResourcesByName, resourceName) == serverResourcesByName

\* delete(serverResourcesByName, resourceName) at the end of a round of the
\* first loop, "so we won't process it again in the 2nd for loop"
deleteProcessed(serverResourcesByName, resourceName) ==
    Remove(serverResourcesByName, resourceName)

\* a mutant of isParent: a kind named on either side of a pair is registered
isParentOrChild(updateOwnerRefMappings, resourceName) ==
    \/ resourceName \in DOMAIN updateOwnerRefMappings
    \/ \E o \in DOMAIN updateOwnerRefMappings : updateOwnerRefMappings[o] = resourceName

\* "if it's a parent": the name is a key of the mapping
isParent(updateOwnerRefMappings, resourceName) ==
    resourceName \in DOMAIN updateOwnerRefMappings

OrderedKind ==
    /\ pc = "ordered"
    /\ ~pass.busy
    /\ pass.i <= Len(pass.resourcePriorities)
    /\ LET resourceName == pass.resourcePriorities[pass.i]
           resource == lookup(pass.serverResourcesByName, resourceName)
           parent == isParent(m.updateOwnerRefMappings, resourceName)
           trk == IF parent THEN registerResource(tracker, resource) ELSE tracker
           log == IF parent
                  THEN Append(calls, KindCall("registerResource", resourceName, "ok"))
                  ELSE calls
       IN  IF selected(pass, resourceName)
           THEN MigrateOneResource(resource, trk, log)
           ELSE /\ tracker' = trk
                /\ calls' = log
                /\ pass' = [pass EXCEPT !.i = @ + 1,
                                        !.serverResourcesByName =
                                            deleteProcessed(@, resourceName)]
                /\ UNCHANGED <<tt, g, gpc, ret, options, m, crds, store, nextUID, pc, driver, hist>>

\* a mutant of isOtherError: every error of Get is taken for not-found
isOtherErrorNever(res) == FALSE

\* !apierrors.IsNotFound(err) for the error of Get: the step returns it
isOtherError(res) == res = "error"

\* a mutant of alreadyExists: the answer of Get is not looked at
alreadyExistsNever(found) == FALSE

\* err == nil after Get
alreadyExists(found) == found # {}

\* a mutant of itemToRegister: the source item is registered
itemToRegisterSource(item, returned) == item

\* the item handed to registerCreatedItem: the one the API server returned
itemToRegister(item, returned) == returned

\* a mutant of afterItem: an error ends the loop over the items of the kind
afterItemStopOnError(p, err) ==
    IF err THEN [p EXCEPT !.j = Len(p.list) + 1] ELSE [p EXCEPT !.j = @ + 1]

\* the loop over list.Items after one item: the error, if any, is logged and
\* the loop goes on with the next item
afterItem(p, err) == [p EXCEPT !.j = @ + 1]

\* migrateOneResourceInstance for the next item of the list
MigrateOneResourceInstance ==
    /\ pc \in {"ordered", "remaining"}
    /\ pass.busy
    /\ pass.j <= Len(pass.list)
    /\ LET item == pass.list[pass.j]
           resourceName == pass.resource.Name
           targetNS == getTargetNamespace(m, item.namespace)
           client == clientForItem(newGVR(m, resourceName), targetNS)
           found == storeGet(store, client, item.name)
           get(res, obj) == Call("get", resourceName, client.namespace, item.name, res, item, obj, obj)
           create(res, obj, out) ==
               Call("create", resourceName, client.namespace, item.name, res, item, obj, out)
       IN  \/ /\ mayFail
              /\ hist' = failed(hist)
              /\ IF isOtherError("error")
                 THEN /\ calls' = Append(calls, get("error", NoItem))
                      /\ UNCHANGED <<tracker, store, nextUID>>
                 ELSE \E prepared \in prepareForCreate(m, tracker, item) :
                          LET r == storeCreate(store, client, prepared, nextUID)
                          IN  /\ calls' = calls \o
                                     <<get("error", NoItem),
                                       create(IF r.err THEN "error" ELSE "ok", prepared, r.obj)>>
                              /\ store' = r.store
                              /\ nextUID' = IF r.err THEN nextUID ELSE nextUID + 1
                              /\ tracker' = IF r.err THEN tracker
                                            ELSE registerCreatedItem(
                                                     tracker, itemToRegister(item, r.obj))
           \/ /\ alreadyExists(found)
              /\ \E existing \in found :
                    /\ tracker' = registerCreatedItem(tracker, itemToRegister(item, existing.obj))
                    /\ calls' = Append(calls, get("found", existing.obj))
              /\ UNCHANGED <<store, nextUID, hist>>
           \/ /\ ~alreadyExists(found)
              /\ mayFail
              /\ hist' = failed(hist)
              /\ \E prepared \in prepareForCreate(m, tracker, item) :
                    calls' = calls \o <<get("notfound", NoItem), create("error", prepared, NoItem)>>
              /\ UNCHANGED <<tracker, store, nextUID>>
           \/ /\ ~alreadyExists(found)
              /\ \E prepared \in prepareForCreate(m, tracker, item) :
                    LET r == storeCreate(store, client, prepared, nextUID)
                    IN  IF r.err
                        THEN /\ calls' = calls \o <<get("notfound", NoItem),
                                                    create("error", prepared, NoItem)>>
                             /\ hist' = [hist EXCEPT !.clean = FALSE]
                             /\ UNCHANGED <<tracker, store, nextUID>>
                        ELSE /\ calls' = calls \o <<get("notfound", NoItem),
                                                    create("ok", prepared, r.obj)>>
                             /\ store' = r.store
                             /\ nextUID' = nextUID + 1
                             /\ tracker' = registerCreatedItem(tracker, itemToRegister(item, r.obj))
                             /\ UNCHANGED hist
    /\ pass' = afterItem(pass, calls'[Len(calls')].res = "error")
    /\ UNCHANGED <<tt, g, gpc, ret, options, m, crds, pc, driver>>

\* the loop over list.Items is over: migrateOneResource returns, and the
\* first loop deletes the name from serverResourcesByName
KindDone ==
    /\ pc \in {"ordered", "remaining"}
    /\ pass.busy
    /\ pass.j > Len(pass.list)
    /\ pass' = IF pc = "ordered"
               THEN [pass EXCEPT !.busy = FALSE, !.resource = NoResource, !.list = << >>,
                                 !.j = 1, !.i = @ + 1,
                                 !.serverResourcesByName =
                                     deleteProcessed(@, pass.resourcePriorities[pass.i])]
               ELSE [pass EXCEPT !.busy = FALSE, !.resource = NoResource, !.list = << >>,
                                 !.j = 1, !.todo = @ \ {pass.resource.Name}]
    /\ UNCHANGED <<tt, g, gpc, ret, options, m, tracker, crds, store, nextUID, pc, driver, calls, hist>>

\* the loop over resourcePriorities is over: the loop over the rest of
\* serverResourcesByName starts
OrderedDone ==
    /\ pc = "ordered"
    /\ ~pass.busy
    /\ pass.i > Len(pass.resourcePriorities)
    /\ pc' = "remaining"
    /\ pass' = [pass EXCEPT !.todo = DOMAIN pass.serverResourcesByName]
    /\ UNCHANGED <<tt, g, gpc, ret, options, m, tracker, crds, store, nextUID, driver, calls, hist>>

\* one round of the loop over the remaining resources, in any order
RemainingKind ==
    /\ pc = "remaining"
    /\ ~pass.busy
    /\ \E name \in pass.todo :
          IF selected(pass, name)
          THEN MigrateOneResource(pass.serverResourcesByName[name], tracker, calls)
          ELSE /\ pass' = [pass EXCEPT !.todo = @ \ {name}]
               /\ UNCHANGED <<tt, g, gpc, ret, options, m, tracker, crds, store, nextUID, pc,
                              driver, calls, hist>>

\* the pass returns to the driver
PassDone ==
    /\ pc = "remaining"
    /\ ~pass.busy
    /\ pass.todo = {}
    /\ pc' = "idle"
    /\ pass' = NoPass
    /\ hist' = [hist EXCEPT !.passNo = @ + 1]
    /\ UNCHANGED <<tt, g, gpc, ret, options, m, tracker, crds, store, nextUID, driver, calls>>

Next ==
    \/ NewMigrator
    \/ MigrateDiscoveryFatal
    \/ MigrateCycleFatal
    \/ MigrateUnknownFatal
    \/ MigrateStart
    \/ OrderedKind
    \/ MigrateOneResourceInstance
    \/ KindDone
    \/ OrderedDone
    \/ RemainingKind
    \/ PassDone

Spec == Init /\ [][Next]_vars

\* wait.Until keeps calling the pass and every call of a pass returns: a
\* step that can be taken is taken
SpecLive == Init /\ [][Next]_vars /\ WF_vars(Next)

(***************************************************************************)
(* MigrateAllResources and MigrateSomeResources(nil) on the same inputs:   *)
(* one of the two is called on a new Migrator, its history of calls and    *)
(* the state it leaves are kept, and the other is called on a new Migrator *)
(* over the same two groups.                                               *)
(***************************************************************************)
AllArgs == [fn |-> "MigrateAllResources", resourceSet |-> NilSet]

SomeNilArgs == [fn |-> "MigrateSomeResources", resourceSet |-> NilSet]

BothFunctions == [fn |-> "bothFunctions", args |-> << >>, returned |-> FALSE, result |-> << >>]

PairInit ==
    /\ Started({AllArgs, SomeNilArgs})
    /\ tt = BothFunctions

firstCalled == tt.fn = "bothFunctions" /\ tt.result = << >>

secondCalled == tt.fn = "bothFunctions" /\ tt.result # << >>

\* the first call, as the driver makes it
PairFirst ==
    /\ firstCalled
    /\ hist.passNo = 0
    /\ \/ NewMigrator
       \/ MigrateDiscoveryFatal
       \/ MigrateCycleFatal
       \/ MigrateUnknownFatal
       \/ MigrateStart
       \/ OrderedKind
       \/ MigrateOneResourceInstance
       \/ KindDone
       \/ OrderedDone
       \/ RemainingKind

\* the first call returns or ends the process: what it did is kept, and the
\* other function is about to be called on the inputs the first one had
PairSwitch ==
    /\ firstCalled
    /\ \/ pc = "remaining" /\ ~pass.busy /\ pass.todo = {}
       \/ pc = "exited" /\ ~parseMappings(options.UpdateOwnerRefMappings).fatal
    /\ tt' = [tt EXCEPT !.result =
                 <<[fn |-> driver.fn, exited |-> pc = "exited",
                    resourcePriorities |-> pass.resourcePriorities, calls |-> calls,
                    store |-> store, tracker |-> tracker]>>]
    /\ driver' = IF driver = AllArgs THEN SomeNilArgs ELSE AllArgs
    /\ store' = hist.startStore
    /\ tracker' = hist.startTracker
    /\ nextUID' = 21
    /\ hist' = [hist EXCEPT !.failures = 0, !.clean = TRUE]
    /\ pc' = "idle"
    /\ pass' = NoPass
    /\ calls' = << >>
    /\ UNCHANGED <<g, gpc, ret, options, m, crds>>

\* the source items of the Get calls of log from its k-th entry up to the
\* next call about a kind
RECURSIVE upcoming(_, _)
upcoming(log, k) ==
    IF k > Len(log) \/ log[k].op \notin {"get", "create"} THEN << >>
    ELSE IF log[k].op = "get" THEN <<log[k].src>> \o upcoming(log, k + 1)
    ELSE upcoming(log, k + 1)

\* the second call has so far met the iteration orders and the answers of
\* the API server the first call met
sameInputs ==
    LET first == tt.result[1]
    IN  /\ Len(calls) <= Len(first.calls)
        /\ SubSeq(first.calls, 1, Len(calls)) = calls
        /\ pc = "exited" => first.exited
        /\ first.exited => pc \in {"idle", "exited"}
        /\ pc \in {"ordered", "remaining"} => pass.resourcePriorities = first.resourcePriorities
        /\ pass.busy =>
               SubSeq(pass.list, pass.j, Len(pass.list)) = upcoming(first.calls, Len(calls) + 1)

\* the second call, with the inputs of the first
PairSecond ==
    /\ secondCalled
    /\ hist.passNo = 0
    /\ Next
    /\ sameInputs'

PairNext == PairFirst \/ PairSwitch \/ PairSecond

SpecPair == PairInit /\ [][PairNext]_vars

(***************************************************************************)
(* Properties of the graph                                                 *)
(***************************************************************************)
\* the pairs (owner, dependent) added with addEdge
EdgePairs(gr) ==
    {p \in gr.nodes \X gr.nodes : \E i \in 1..Len(edgesOf(gr, p[1])) : edgesOf(gr, p[1])[i] = p[2]}

\* n reaches dst along one or more edges (at most k)
RECURSIVE ReachesIn(_, _, _, _)
ReachesIn(gr, n, dst, k) ==
    IF k = 0 THEN FALSE
    ELSE \E p \in EdgePairs(gr) : p[1] = n /\ (p[2] = dst \/ ReachesIn(gr, p[2], dst, k - 1))

HasCycle(gr) == \E n \in gr.nodes : ReachesIn(gr, n, n, Cardinality(gr.nodes))

Positions(seq, n) == {i \in 1..Len(seq) : seq[i] = n}

\* C5: for an acyclic edge set sort() returns no error and a sequence that
\* holds every node once, each edge's owner strictly before its dependent,
\* whatever order the nodes are visited in.
C5_AcyclicSortOrdersOwnersFirst ==
    (gpc = "sorted" /\ ~HasCycle(g)) =>
        /\ ~ret.err
        /\ ~ret.isNil
        /\ \A n \in g.nodes : Cardinality(Positions(ret.sorted, n)) = 1
        /\ \A p \in EdgePairs(g) :
              \A i \in Positions(ret.sorted, p[1]), j \in Positions(ret.sorted, p[2]) : i < j

\* an acyclic graph of three nodes and three edges has been sorted
C5_Witness ==
    /\ gpc = "sorted"
    /\ ~HasCycle(g)
    /\ Cardinality(EdgePairs(g)) = 3
    /\ Len(ret.sorted) = 3

\* C6: for an edge set with a directed cycle sort() returns an error and a
\* nil sequence, never a partial ordering, whatever order the nodes are
\* visited in.
C6_CyclicSortFails ==
    (gpc = "sorted" /\ HasCycle(g)) =>
        /\ ret.err
        /\ ret.isNil
        /\ ret.sorted = << >>

\* a graph with a self-edge on one node and an acyclic edge elsewhere (so the
\* cycle is not reachable from every root) has been sorted
C6_Witness ==
    /\ gpc = "sorted"
    /\ \E n \in g.nodes : <<n, n>> \in EdgePairs(g)
    /\ \E p \in EdgePairs(g) : p[1] # p[2] /\ ~ReachesIn(g, p[1], p[1], 3) /\ ~ReachesIn(g, p[2], p[2], 3)
    /\ ret.err

(***************************************************************************)
(* Properties of the migration of one item                                 *)
(***************************************************************************)
\* the namespace the configuration maps a source namespace to
MappedNamespace(ns) ==
    IF \E k \in DOMAIN m.namespaceMappings : k = ns THEN m.namespaceMappings[ns] ELSE ns

\* the calls of the running pass with this operation and this result
CallsOf(op, res) == {i \in 1..Len(calls) : calls[i].op = op /\ calls[i].res = res}

\* the calls the step from this state to the next has added to the history
NewCalls == {i \in 1..Len(calls') : i > Len(calls)}

\* the entries the target group holds under a resource, a namespace and a name
TargetEntries(st, resource, namespace, name) ==
    {e \in st : /\ e.gv = m.newGroupVersion
                /\ e.resource = resource
                /\ e.namespace = namespace
                /\ e.name = name}

\* C1: a source item with no counterpart in the target group whose create
\* succeeds is created from a request with the target apiVersion, an empty
\* resourceVersion and the mapped namespace (the source namespace when it is
\* not mapped), under the kind and the name of the source item; the created
\* item is stored in the target group under that namespace and name.
C1_CreatedItemFields ==
    \A i \in CallsOf("create", "ok") :
        LET c == calls[i]
        IN  /\ i > 1
            /\ calls[i - 1].op = "get"
            /\ calls[i - 1].res = "notfound"
            /\ calls[i - 1].src = c.src
            /\ c.obj.apiVersion = m.newGroupVersion
            /\ c.obj.resourceVersion = ""
            /\ c.obj.namespace = MappedNamespace(c.src.namespace)
            /\ c.obj.kind = c.src.kind
            /\ c.obj.name = c.src.name
            /\ c.out.apiVersion = m.newGroupVersion
            /\ c.out.kind = c.src.kind
            /\ TargetEntries(store, c.resource, MappedNamespace(c.src.namespace), c.src.name)
                   = {Entry(m.newGroupVersion, c.resource, c.out)}

\* an item of a mapped namespace and an item of an unmapped namespace, both
\* with a resourceVersion, have been created in one pass
C1_Witness ==
    /\ m.newGroupVersion # m.oldGroupVersion
    /\ \E i \in CallsOf("create", "ok") :
          /\ calls[i].src.namespace = "ns1"
          /\ calls[i].obj.namespace = "ns2"
          /\ calls[i].src.resourceVersion # ""
    /\ \E i \in CallsOf("create", "ok") : calls[i].src.namespace = calls[i].obj.namespace

\* the step has found the item in the target group
FoundStep ==
    /\ Len(calls') = Len(calls) + 1
    /\ calls'[Len(calls')].op = "get"
    /\ calls'[Len(calls')].res = "found"

\* C2: when Get finds an item of the same name in the target group in the
\* mapped namespace, the migration of the source item issues no create call
\* and changes nothing in the store (the existing item keeps its content), and
\* the UID of the existing item is recorded under its kind and name when the
\* kind is a registered owner kind.
C2_AlreadyExistsSkips ==
    [][FoundStep =>
         LET c == calls'[Len(calls')]
         IN  /\ store' = store
             /\ nextUID' = nextUID
             /\ Entry(m.newGroupVersion, c.resource, c.out) \in store
             /\ c.out.namespace = MappedNamespace(c.src.namespace)
             /\ c.out.name = c.src.name
             /\ c.out.kind \in DOMAIN tracker.createdItemsByKind =>
                   /\ c.out.name \in DOMAIN tracker'.createdItemsByKind[c.out.kind]
                   /\ tracker'.createdItemsByKind[c.out.kind][c.out.name].uid = c.out.uid
             /\ c.out.kind \notin DOMAIN tracker.createdItemsByKind => tracker' = tracker]_vars

\* an item of a registered owner kind was found in the target group, with a
\* content that differs from the source item's, and recorded
C2_Witness ==
    /\ calls # << >>
    /\ calls[Len(calls)].op = "get"
    /\ calls[Len(calls)].res = "found"
    /\ calls[Len(calls)].out.kind \in DOMAIN tracker.createdItemsByKind
    /\ calls[Len(calls)].out.spec # calls[Len(calls)].src.spec
    /\ calls[Len(calls)].out.uid # calls[Len(calls)].src.uid

(***************************************************************************)
(* Properties of the owner references                                      *)
(***************************************************************************)
\* the mapping pairs the owner kind of a reference with the resource of the
\* dependent
OwnerPair(kind, dependent) ==
    \E r \in APIResources :
        /\ r.Kind = kind
        /\ \E k \in DOMAIN m.updateOwnerRefMappings :
              k = r.Name /\ m.updateOwnerRefMappings[k] = dependent

\* the items of a group with this kind and name
Named(st, gv, kind, name) == {e \in st : e.gv = gv /\ e.obj.kind = kind /\ e.name = name}

\* the items of a group a reference of a dependent of this namespace can
\* stand for: the owner of that kind and name in the namespace of the
\* dependent, or in no namespace
OwnersIn(st, gv, ref, namespace) ==
    {e \in Named(st, gv, ref.kind, ref.name) : e.namespace \in {namespace, ""}}

\* C3: in a pass of MigrateAllResources with no failed call, every created
\* dependent's reference to an owner kind of the mapping whose owner exists in
\* the source (in the dependent's namespace, or in none) and has a counterpart
\* in the target group in the dependent's target namespace carries the target
\* apiVersion and the UID of that counterpart; a reference to another group is
\* left as it was.
C3_OwnerRefsPointToTargetOwner ==
    (driver.fn = "MigrateAllResources" /\ hist.clean /\ hist.failures = 0
         /\ m.newGroupVersion # m.oldGroupVersion) =>
        \A i \in CallsOf("create", "ok") :
            LET c == calls[i]
            IN  /\ Len(c.out.ownerReferences) = Len(c.src.ownerReferences)
                /\ \A k \in 1..Len(c.src.ownerReferences) :
                      LET ref == c.src.ownerReferences[k]
                          written == c.out.ownerReferences[k]
                          owners == OwnersIn(store, m.newGroupVersion, ref, c.out.namespace)
                      IN  /\ ( /\ ref.apiVersion = m.oldGroupVersion
                               /\ OwnerPair(ref.kind, c.resource)
                               /\ OwnersIn(store, m.oldGroupVersion, ref, c.src.namespace) # {}
                               /\ owners # {} ) =>
                                 /\ written.apiVersion = m.newGroupVersion
                                 /\ written.uid \in {e.obj.uid : e \in owners}
                          /\ ref.apiVersion # m.oldGroupVersion => written = ref

\* a dependent created in "ns1" carries the UID of the new owner of "ns2"
\* although the new owner of its own namespace exists with another UID
C3_Divergence ==
    /\ driver.fn = "MigrateAllResources" /\ hist.clean /\ hist.failures = 0
    /\ m.namespaceMappings = EmptyMap
    /\ \E i \in CallsOf("create", "ok") :
          \E k \in 1..Len(calls[i].src.ownerReferences) :
              \E own \in Named(store, m.newGroupVersion, "Bar", "a"),
                 other \in Named(store, m.newGroupVersion, "Bar", "a") :
                  /\ calls[i].out.namespace = "ns1"
                  /\ calls[i].src.ownerReferences[k].kind = "Bar"
                  /\ calls[i].src.ownerReferences[k].name = "a"
                  /\ own.namespace = "ns1"
                  /\ other.namespace = "ns2"
                  /\ calls[i].out.ownerReferences[k].uid = other.obj.uid
                  /\ own.obj.uid # other.obj.uid

\* the step has prepared an item for creation (created or refused)
PreparedCalls == {i \in NewCalls : calls'[i].op = "create"}

\* the condition under which updateOwnerRefs rewrites a reference, on the
\* registry as it is before the step
Rewritable(ref) ==
    /\ ref.apiVersion = m.oldGroupVersion
    /\ \E k \in DOMAIN tracker.createdItemsByKind :
          /\ k = ref.kind
          /\ \E n \in DOMAIN tracker.createdItemsByKind[k] : n = ref.name

\* C4: updateOwnerRefs rewrites a reference to (target apiVersion, UID of the
\* record) exactly when its apiVersion is the source group, its kind is
\* registered and its name has a record under that kind; any other reference
\* (name absent, other apiVersion, kind never registered) is left as it was.
\* The references keep their number and order.
C4_UpdateOwnerRefsCondition ==
    [][\A i \in PreparedCalls :
          LET c == calls'[i]
          IN  /\ Len(c.obj.ownerReferences) = Len(c.src.ownerReferences)
              /\ \A k \in 1..Len(c.src.ownerReferences) :
                    LET ref == c.src.ownerReferences[k]
                        written == c.obj.ownerReferences[k]
                    IN  /\ Rewritable(ref) =>
                              written = [ref EXCEPT
                                  !.apiVersion = m.newGroupVersion,
                                  !.uid = tracker.createdItemsByKind[ref.kind][ref.name].uid]
                        /\ ~Rewritable(ref) => written = ref]_vars

\* the source of a create call of the pass had a reference of this
\* apiVersion, kind and name, written with or without a change
Wrote(av, kind, name, changed) ==
    \E i \in CallsOf("create", "ok") :
        \E k \in 1..Len(calls[i].src.ownerReferences) :
            /\ calls[i].src.ownerReferences[k].apiVersion = av
            /\ calls[i].src.ownerReferences[k].kind = kind
            /\ calls[i].src.ownerReferences[k].name = name
            /\ changed = (calls[i].obj.ownerReferences[k] # calls[i].src.ownerReferences[k])

\* one pass has written a reference with a record (rewritten), one of an
\* absent name, one of another group and one of a kind never registered
C4_Witness ==
    /\ Wrote(OldGV, "Bar", "a", TRUE)
    /\ Wrote(OldGV, "Bar", "zz", FALSE)
    /\ Wrote(AltGV, "Blue", "a", FALSE)
    /\ Wrote(OldGV, "Baz", "b", FALSE)
    /\ "Baz" \notin DOMAIN tracker.createdItemsByKind

(***************************************************************************)
(* Properties of whole passes                                              *)
(***************************************************************************)
\* the items of the old group, and of the new group
SourceEntries(st) == {e \in st : e.gv = m.oldGroupVersion}
TargetContent(st) == {e \in st : e.gv = m.newGroupVersion}

\* the create calls of the running pass, accepted or refused
CreateCalls == {i \in 1..Len(calls) : calls[i].op = "create"}

\* the calls of the running pass about this source item
ItemCalls(e) == {i \in 1..Len(calls) : calls[i].op \in {"get", "create"} /\ calls[i].src = e.obj}

\* the pass has found this source item in the target group
TookExisting(e) == \E i \in CallsOf("get", "found") : calls[i].src = e.obj

\* the driver asks for every kind
FullPass == driver.fn = "MigrateAllResources" \/ driver.resourceSet.isNil

\* the pass migrates the items of this resource: the driver asks for it and
\* its new CRD declares no status subresource
MigratedKind(name) ==
    /\ FullPass \/ name \in driver.resourceSet.set
    /\ \E n \in DOMAIN crds : n = name /\ crds[n] = "plain"

\* a pass has returned after a pass in which every call succeeded, and no
\* call of its own was made to fail
RepeatedPassDone ==
    /\ pc = "idle"
    /\ hist.passNo >= 2
    /\ hist.prevClean
    /\ hist.failures = 0

\* C7 as stated: after a pass with no failed call, a second full pass issues
\* no create call, finds every source item in the target group, and leaves
\* the content of the target group as the first pass left it.
C7_SecondPassFindsEveryItem ==
    (RepeatedPassDone /\ FullPass) =>
        /\ CreateCalls = {}
        /\ \A e \in SourceEntries(store) : TookExisting(e)
        /\ TargetContent(store) = TargetContent(hist.startStore)

\* C7: after a pass with no failed call, a second pass issues no create
\* call, finds in the target group every source item of a kind it migrates
\* (asked for by the driver, new CRD without status subresource), makes no
\* call about the items of the other kinds, and leaves the content of the
\* target group as the first pass left it.
C7_SecondPassFindsMigratedItems ==
    RepeatedPassDone =>
        /\ CreateCalls = {}
        /\ \A e \in SourceEntries(store) :
              /\ MigratedKind(e.resource) => TookExisting(e)
              /\ ~MigratedKind(e.resource) => ItemCalls(e) = {}
        /\ TargetContent(store) = TargetContent(hist.startStore)

\* a second pass has returned after a first pass that created items: it found
\* an item of a migrated kind and passed over an item of a kind with a status
\* subresource
C7_Witness ==
    /\ RepeatedPassDone
    /\ FullPass
    /\ nextUID > 21
    /\ \E e \in SourceEntries(store) : MigratedKind(e.resource) /\ TookExisting(e)
    /\ \E e \in SourceEntries(store) : ~MigratedKind(e.resource) /\ ItemCalls(e) = {}

\* C8: with distinct source and target groups no step of any pass changes
\* the items of the source group: none is added, removed or rewritten,
\* whether the pass creates, skips or fails.
C8_SourceGroupUntouched ==
    [][m.newGroupVersion # m.oldGroupVersion =>
          SourceEntries(store') = SourceEntries(store)]_vars

\* two passes have run on a source with items; one call failed, an item was
\* created and an item was skipped as existing
C8_Witness ==
    /\ m.newGroupVersion # m.oldGroupVersion
    /\ pc = "idle"
    /\ hist.passNo = 2
    /\ hist.failures > 0
    /\ nextUID > 21
    /\ CallsOf("get", "found") # {}
    /\ SourceEntries(store) # {}

(***************************************************************************)
(* Properties of the checks made before the first loop                     *)
(***************************************************************************)
\* following the mapping from k reaches dst in at most n steps
RECURSIVE MappingReaches(_, _, _)
MappingReaches(k, dst, n) ==
    /\ n > 0
    /\ \E p \in DOMAIN m.updateOwnerRefMappings :
          /\ p = k
          /\ \/ m.updateOwnerRefMappings[p] = dst
             \/ MappingReaches(m.updateOwnerRefMappings[p], dst, n - 1)

\* the owner-to-dependent mapping has a cycle
CyclicMapping ==
    \E k \in DOMAIN m.updateOwnerRefMappings :
        MappingReaches(k, k, Cardinality(DOMAIN m.updateOwnerRefMappings))

\* the mapping names a resource the discovery does not list
UnknownInMapping ==
    \E k \in DOMAIN m.updateOwnerRefMappings :
        \E n \in {k, m.updateOwnerRefMappings[k]} : \A r \in APIResources : r.Name # n

\* no pass has got past its checks: no call was made, and the store and the
\* registry are as they were
NothingDone ==
    /\ pc \in {"idle", "exited"}
    /\ pass = NoPass
    /\ calls = << >>
    /\ store = hist.startStore
    /\ tracker = newCreatedItemsTracker(m.oldGroupVersion, m.newGroupVersion)
    /\ nextUID = 21

\* C9: with a cycle in the owner-to-dependent mapping the pass ends before
\* any registerResource, list, existence check or create: the store and the
\* registry are never changed.
C9_CycleAbortsBeforeAnyCall == CyclicMapping => NothingDone

\* a pass has ended on a cycle of two kinds, with items to migrate
C9_Witness ==
    /\ CyclicMapping
    /\ pc = "exited"
    /\ Cardinality(DOMAIN m.updateOwnerRefMappings) = 2
    /\ SourceEntries(store) # {}

\* C10: when the ordering holds a name the discovery does not list, the pass
\* ends before any kind is registered or migrated, also for the orderings
\* where known kinds come first: the store and the registry are never
\* changed.
C10_UnknownKindAbortsBeforeAnyCall ==
    (UnknownInMapping /\ ~CyclicMapping) =>
        /\ NothingDone
        /\ tracker.resourcesByKind = EmptyMap

\* a pass has ended on an unknown kind that a known owner kind can precede in
\* the ordering, with items to migrate
C10_Witness ==
    /\ UnknownInMapping
    /\ pc = "exited"
    /\ hist.failures = 0
    /\ SourceEntries(store) # {}
    /\ \E r \in priorityOutcomes :
          /\ ~r.err
          /\ \E i \in 2..Len(r.sorted) :
                /\ \A x \in APIResources : x.Name # r.sorted[i]
                /\ \E x \in APIResources : x.Name = r.sorted[1]
                /\ r.sorted[1] \in DOMAIN m.updateOwnerRefMappings

(***************************************************************************)
(* Properties of the errors inside a pass                                  *)
(***************************************************************************)
\* the calls of the running pass about this resource with these operations
KindCalls(name, ops) == {i \in 1..Len(calls) : calls[i].resource = name /\ calls[i].op \in ops}

\* the new CRD of this resource declares the status subresource
HasStatus(name) == \E n \in DOMAIN crds : n = name /\ crds[n] = "status"

\* the Get of the new CRD of this resource failed in the running pass
FetchFailed(name) == \E i \in KindCalls(name, {"getCRD"}) : calls[i].res = "error"

\* the driver asks for this resource
Asked(name) == FullPass \/ name \in driver.resourceSet.set

\* a pass has returned; `calls` holds its calls
PassReturned == pc = "idle" /\ hist.passNo >= 1

\* C11: for a kind whose new CRD declares spec.subresources.status, or whose
\* CRD could not be fetched, the pass makes no list, existence check or
\* create; every other kind the driver asks for is still validated and
\* listed in that pass, and each of its listed items gets its existence
\* check.
C11_SkippedKindOthersProceed ==
    /\ \A r \in APIResources :
          (HasStatus(r.Name) \/ FetchFailed(r.Name)) =>
              KindCalls(r.Name, {"list", "get", "create"}) = {}
    /\ PassReturned =>
          \A r \in APIResources :
              Asked(r.Name) =>
                  /\ KindCalls(r.Name, {"getCRD"}) # {}
                  /\ ~(HasStatus(r.Name) \/ FetchFailed(r.Name)) =>
                        /\ KindCalls(r.Name, {"list"}) # {}
                        /\ (\E i \in KindCalls(r.Name, {"list"}) : calls[i].res = "ok") =>
                              \A e \in SourceEntries(hist.startStore) :
                                  e.resource = r.Name => ItemCalls(e) # {}

\* a pass has returned in which a kind with items was skipped for its status
\* subresource while an item of another kind was created
C11_Witness ==
    /\ PassReturned
    /\ \E e \in SourceEntries(store) : HasStatus(e.resource) /\ ItemCalls(e) = {}
    /\ \E i \in CallsOf("create", "ok") : ~HasStatus(calls[i].resource)

\* the calls of the running pass about an item that ended in an error
FailedItemCalls == {i \in 1..Len(calls) : calls[i].op \in {"get", "create"} /\ calls[i].res = "error"}

\* the running pass has listed the items of this resource
Listed(name) == \E i \in KindCalls(name, {"list"}) : calls[i].res = "ok"

\* the running pass has checked this source item and, when the check found
\* nothing, has issued its create
Attempted(e) ==
    \E i \in 1..Len(calls) :
        /\ calls[i].op = "get"
        /\ calls[i].src = e.obj
        /\ calls[i].res = "notfound" =>
              /\ i < Len(calls)
              /\ calls[i + 1].op = "create"
              /\ calls[i + 1].src = e.obj

\* C12: when the existence check or the create of an item has failed, the
\* pass still goes through every kind the driver asks for, and every item of
\* every kind it has listed gets its own existence check and, when the check
\* finds nothing, its create.
C12_ItemFailureIsolated ==
    (PassReturned /\ FailedItemCalls # {}) =>
        \A r \in APIResources :
            Asked(r.Name) =>
                /\ KindCalls(r.Name, {"getCRD"}) # {}
                /\ Listed(r.Name) =>
                      \A e \in SourceEntries(hist.startStore) :
                          e.resource = r.Name => Attempted(e)

\* a pass has returned in which an item failed, a later item of the same
\* kind was created and an item of a later kind was created
C12_Witness ==
    /\ PassReturned
    /\ \E i \in FailedItemCalls :
          /\ \E j \in CallsOf("create", "ok") : j > i /\ calls[j].resource = calls[i].resource
          /\ \E j \in CallsOf("create", "ok") : j > i /\ calls[j].resource # calls[i].resource

(***************************************************************************)
(* Properties of the registry                                              *)
(***************************************************************************)
\* the step is the migration of one item; its outcome is its last call
ItemStep ==
    /\ Len(calls') > Len(calls)
    /\ calls'[Len(calls')].op \in {"get", "create"}

\* the registry holds, or not, a record under this kind and name
Tracked(trk, kind) == \E k \in DOMAIN trk.createdItemsByKind : k = kind
Recorded(trk, kind, name) ==
    Tracked(trk, kind) /\ \E n \in DOMAIN trk.createdItemsByKind[kind] : n = name

\* the registries differ at most in the record under this kind and name
SameButFor(trk1, trk2, kind, name) ==
    /\ trk1.resourcesByKind = trk2.resourcesByKind
    /\ DOMAIN trk1.createdItemsByKind = DOMAIN trk2.createdItemsByKind
    /\ \A k \in DOMAIN trk1.createdItemsByKind :
          \A n \in (DOMAIN trk1.createdItemsByKind[k]) \cup (DOMAIN trk2.createdItemsByKind[k]) :
              (k # kind \/ n # name) =>
                  /\ Recorded(trk1, k, n)
                  /\ Recorded(trk2, k, n)
                  /\ trk1.createdItemsByKind[k][n] = trk2.createdItemsByKind[k][n]

\* C13: for an item of a registered owner kind the step records the item's
\* name when it ends with the item found or created, with the UID of the
\* item the store returned (not the UID of the source item) and touching no
\* other record; a step that ends in an error leaves the registry as it was.
C13_RecordOnSuccessOnly ==
    [][(ItemStep /\ Tracked(tracker, calls'[Len(calls')].src.kind)) =>
          LET c == calls'[Len(calls')]
          IN  /\ c.res \in {"found", "ok"} =>
                    /\ Recorded(tracker', c.src.kind, c.src.name)
                    /\ tracker'.createdItemsByKind[c.src.kind][c.src.name]
                           = [name |-> c.out.name, uid |-> c.out.uid]
                    /\ c.out.apiVersion = m.newGroupVersion
                    /\ m.newGroupVersion # m.oldGroupVersion => c.out.uid # c.src.uid
                    /\ SameButFor(tracker, tracker', c.src.kind, c.src.name)
              /\ c.res = "error" => tracker' = tracker]_vars

\* an item of a registered owner kind has just been created and recorded
\* with the UID the store gave it, after the step of another item of that
\* kind failed and recorded nothing
C13_Witness ==
    /\ calls # << >>
    /\ LET c == calls[Len(calls)]
       IN  /\ c.op = "create"
           /\ c.res = "ok"
           /\ Recorded(tracker, c.src.kind, c.src.name)
           /\ tracker.createdItemsByKind[c.src.kind][c.src.name].uid = c.out.uid
           /\ c.out.uid # c.src.uid
           /\ \E i \in FailedItemCalls : calls[i].src.kind = c.src.kind

(***************************************************************************)
(* Properties of repeated passes                                           *)
(***************************************************************************)
\* every item of the old group of a kind the passes migrate has a
\* counterpart of its name in the mapped namespace of the new group
Converged(st) ==
    \A e \in SourceEntries(st) :
        MigratedKind(e.resource) =>
            TargetEntries(st, e.resource, MappedNamespace(e.namespace), e.name) # {}

\* the driver is about to call a pass, the checks before the first loop
\* pass, and no call fails any more
FailuresOver ==
    /\ pc = "idle"
    /\ hist.passNo < MaxPasses
    /\ hist.failures = hist.budget
    /\ ~CyclicMapping
    /\ ~UnknownInMapping

\* C14: once the calls no longer fail and a pass is still to come, the
\* passes reach a store in which every source item of every kind that is
\* not skipped has its counterpart in the target group, and that stays so
\* (an item that failed in a pass is created by a later one); a pass that
\* starts on such a store issues no create.
C14_PassesConverge ==
    /\ FailuresOver ~> [](Converged(store))
    /\ []((pc # "off" /\ Converged(hist.startStore)) => CreateCalls = {})

\* the second pass has returned after creating an item whose migration had
\* failed in the first pass; every migrated source item has its counterpart
C14_Witness ==
    /\ PassReturned
    /\ hist.passNo = 2
    /\ hist.failures > 0
    /\ ~Converged(hist.startStore)
    /\ Converged(store)
    /\ CallsOf("create", "ok") # {}

(***************************************************************************)
(* Properties of the dependents found in the target group                  *)
(***************************************************************************)
\* the source items a target entry is the counterpart of
SourceOf(st, t) ==
    {e \in SourceEntries(st) : /\ e.resource = t.resource
                                /\ e.name = t.name
                                /\ MappedNamespace(e.namespace) = t.namespace}

\* an item carries a reference to a new owner of this kind and name: the
\* target apiVersion and the UID of an item of the target group
PointsToNewParent(st, obj, kind, name) ==
    \E k \in 1..Len(obj.ownerReferences) :
        /\ obj.ownerReferences[k].kind = kind
        /\ obj.ownerReferences[k].name = name
        /\ obj.ownerReferences[k].apiVersion = m.newGroupVersion
        /\ obj.ownerReferences[k].uid \in
              {e.obj.uid : e \in Named(st, m.newGroupVersion, kind, name)}

\* C15: when a pass has returned with every call succeeding, every
\* dependent of the target group whose source counterpart refers to an owner
\* of the source group, of a kind paired with the dependent's, that has a
\* counterpart in the target group, refers to an owner of the target group
\* (target apiVersion, UID of a target item of that kind and name), whether
\* the pass created the dependent or found it.
C15_ChildrenPointToNewParent ==
    (PassReturned /\ hist.clean /\ FullPass /\ m.newGroupVersion # m.oldGroupVersion) =>
        \A t \in TargetContent(store) :
            \A e \in SourceOf(store, t) :
                \A k \in 1..Len(e.obj.ownerReferences) :
                    LET ref == e.obj.ownerReferences[k]
                    IN  ( /\ ref.apiVersion = m.oldGroupVersion
                          /\ OwnerPair(ref.kind, t.resource)
                          /\ MigratedKind(t.resource)
                          /\ OwnersIn(store, m.oldGroupVersion, ref, e.namespace) # {}
                          /\ Named(store, m.newGroupVersion, ref.kind, ref.name) # {} ) =>
                              PointsToNewParent(store, t.obj, ref.kind, ref.name)

\* a pass with no failed call has created the owner and found the dependent
\* in the target group, and the dependent still carries the reference to the
\* owner of the source group
C15_Divergence ==
    /\ PassReturned /\ hist.clean /\ FullPass
    /\ \E t \in TargetContent(store) :
          \E e \in SourceOf(store, t) :
              \E k \in 1..Len(e.obj.ownerReferences) :
                  LET ref == e.obj.ownerReferences[k]
                  IN  /\ ref.apiVersion = m.oldGroupVersion
                      /\ OwnerPair(ref.kind, t.resource)
                      /\ TookExisting(e)
                      /\ \E i \in CallsOf("create", "ok") :
                            /\ calls[i].out.kind = ref.kind
                            /\ calls[i].out.name = ref.name
                      /\ ~PointsToNewParent(store, t.obj, ref.kind, ref.name)
                      /\ \E j \in 1..Len(t.obj.ownerReferences) :
                            /\ t.obj.ownerReferences[j].kind = ref.kind
                            /\ t.obj.ownerReferences[j].name = ref.name
                            /\ t.obj.ownerReferences[j].apiVersion = m.oldGroupVersion

(***************************************************************************)
(* What the copy keeps of the source item                                  *)
(***************************************************************************)
\* the key a key of the source item is stored under: every find of the
\* mapping replaced (the mappings of this model hold at most one pair)
RenamedKey(key, mappings) ==
    IF mappings = EmptyMap THEN key
    ELSE LET find == CHOOSE f \in DOMAIN mappings : TRUE
         IN  Replace(key, find, mappings[find])

\* the entries of a map under the renamed keys, values untouched
SameValues(before, after, mappings) ==
    /\ DOMAIN after = {RenamedKey(k, mappings) : k \in DOMAIN before}
    /\ \A k \in DOMAIN before : after[RenamedKey(k, mappings)] = before[k]

Contains(key, find) ==
    \E i \in 1..Len(key) :
        /\ i + Len(find) - 1 <= Len(key)
        /\ \A k \in 1..Len(find) : key[i + k - 1] = find[k]

\* updateMapKeys has returned
UpdatedKeys == tt.fn = "updateMapKeys" /\ tt.returned

\* C17: in the map updateMapKeys returns, every key of the input that
\* contains no find of the mappings is present with its value; every key
\* that contains the find of a pair is absent, and the key with the find
\* replaced is present with the value of the original key; every value of
\* the input is the value of some key of the result; a nil input comes back
\* nil and an empty one empty.
C17_KeysRenamedValuesKept ==
    UpdatedKeys =>
        LET data == tt.args.data
            mappings == tt.args.mappings
            updated == tt.result.data
        IN  /\ \A key \in DOMAIN data :
                  (\A find \in DOMAIN mappings : ~Contains(key, find)) =>
                      key \in DOMAIN updated /\ updated[key] = data[key]
            /\ \A key \in DOMAIN data : \A find \in DOMAIN mappings :
                  Contains(key, find) =>
                      /\ key \notin DOMAIN updated
                      /\ Replace(key, find, mappings[find]) \in DOMAIN updated
                      /\ updated[Replace(key, find, mappings[find])] = data[key]
            /\ \A key \in DOMAIN data : \E k \in DOMAIN updated : updated[k] = data[key]
            /\ tt.result.isNil = tt.args.isNil
            /\ data = EmptyMap => updated = EmptyMap

\* with the one pair foo.io -> bar.io, the map {foo.io/a: v1, bar.io/a: v4}
\* has come back as {bar.io/a: v1}: the value v4 is in no key of the result
C17_Divergence ==
    /\ UpdatedKeys
    /\ tt.args.mappings = <<"foo.io">> :> <<"bar.io">>
    /\ tt.args.data = (<<"foo.io", "/a">> :> "v1") @@ (<<"bar.io", "/a">> :> "v4")
    /\ tt.result.data = (<<"bar.io", "/a">> :> "v1")

(***************************************************************************)
(* Properties of getTargetNamespace                                        *)
(***************************************************************************)
\* the step in which getTargetNamespace returns
NamespaceReturned == tt.fn = "getTargetNamespace" /\ ~tt.returned /\ tt'.returned

\* C18: getTargetNamespace returns the namespace the mappings give for the
\* original namespace when they hold one, and the original namespace (the
\* empty one included) when they hold none; the namespace returned is the
\* one mapped directly, whether or not the mappings map it further; the call
\* leaves the Migrator, its mappings and everything else as they were.
C18_GetTargetNamespace ==
    [][NamespaceReturned =>
         LET mappings == tt.args.namespaceMappings
             original == tt.args.original
         IN  /\ (\E k \in DOMAIN mappings : k = original) =>
                    tt'.result = mappings[original]
             /\ (\A k \in DOMAIN mappings : k # original) => tt'.result = original
             /\ tt'.args = tt.args
             /\ UNCHANGED <<gvars, mvars>>]_vars

\* a namespace whose mapped namespace is itself mapped further has been
\* looked up: the call has returned the namespace mapped directly
C18_Witness ==
    /\ tt.fn = "getTargetNamespace"
    /\ tt.returned
    /\ tt.args.original = "ns1"
    /\ tt.result = "ns2"
    /\ \E k \in DOMAIN tt.args.namespaceMappings :
          k = "ns2" /\ tt.args.namespaceMappings[k] = "ns3"

(***************************************************************************)
(* Properties of parseMappings                                             *)
(***************************************************************************)
\* an entry with exactly one ':' and text on both sides
WellFormed(entry) ==
    /\ Len(entry) = 3
    /\ entry[1] # ":"
    /\ entry[2] = ":"
    /\ entry[3] # ":"

\* the step in which NewMigrator returns or exits
Built == pc = "new" /\ pc' # "new"

\* C19: when every entry of --update-owner-refs has exactly one ':' with
\* text on both sides, NewMigrator leaves the passes ready to start with the
\* map whose keys are the left parts of the entries, each with the right part
\* of the (last) entry of that left part, the empty map for no entry; when
\* an entry has no colon, more than one, or an empty side, the process exits
\* in NewMigrator, and no pass starts: no call is ever made and the store
\* stays as it was.
C19_ParseMappings ==
    /\ [][Built =>
            LET in == options.UpdateOwnerRefMappings
                out == m'.updateOwnerRefMappings
            IN  IF \A i \in 1..Len(in) : WellFormed(in[i])
                THEN /\ pc' = "idle"
                     /\ DOMAIN out = {in[i][1] : i \in 1..Len(in)}
                     /\ \A i \in 1..Len(in) :
                           (\A j \in (i + 1)..Len(in) : in[j][1] # in[i][1]) =>
                               out[in[i][1]] = in[i][3]
                ELSE pc' = "exited"]_vars
    /\ []((pc \notin {"off", "new"} /\ \E i \in 1..Len(options.UpdateOwnerRefMappings) :
                                          ~WellFormed(options.UpdateOwnerRefMappings[i])) =>
              /\ pc = "exited"
              /\ calls = << >>
              /\ hist.passNo = 0
              /\ store = hist.startStore)

\* the process has exited in NewMigrator on an entry with an empty side that
\* is followed by a good entry, with items waiting in the old group
C19_Witness ==
    /\ pc = "exited"
    /\ hist.passNo = 0
    /\ Len(options.UpdateOwnerRefMappings) = 2
    /\ WellFormed(options.UpdateOwnerRefMappings[2])
    /\ ~WellFormed(options.UpdateOwnerRefMappings[1])
    /\ Len(options.UpdateOwnerRefMappings[1]) = 2
    /\ SourceEntries(store) # {}

(***************************************************************************)
(* Properties of the order of the kinds                                    *)
(***************************************************************************)
\* the kinds that are the child of a pair of the mapping
DependentKinds == {m.updateOwnerRefMappings[o] : o \in DOMAIN m.updateOwnerRefMappings}

\* the items of the dependent kind have just been listed: its first
\* instance is the next thing the pass reads
AboutToRead(d) ==
    /\ pc = "ordered"
    /\ calls # << >>
    /\ calls[Len(calls)].op = "list"
    /\ calls[Len(calls)].resource = d
    /\ calls[Len(calls)].res = "ok"

\* the owner kinds ahead of a kind in the order of the running pass
OwnersBefore(d) ==
    {o \in DOMAIN m.updateOwnerRefMappings :
        \E i, j \in 1..Len(pass.resourcePriorities) :
            /\ i < j
            /\ pass.resourcePriorities[i] = o
            /\ pass.resourcePriorities[j] = d}

KindOf(name) == (CHOOSE r \in APIResources : r.Name = name).Kind

\* a source item has its counterpart in the target group and a record of
\* its name in the registry of its kind
MigratedAndRegistered(e) ==
    /\ TargetEntries(store, e.resource, MappedNamespace(e.namespace), e.name) # {}
    /\ Recorded(tracker, KindOf(e.resource), e.name)

\* C20 as stated: in every pass, when the first instance of a dependent
\* kind is about to be read, every source instance of every owner kind ahead
\* of it in the order has a counterpart in the target group and a record in
\* the registry.
C20_OwnersMigratedFirst ==
    \A d \in DependentKinds :
        AboutToRead(d) =>
            \A o \in OwnersBefore(d) : \A e \in SourceEntries(store) :
                e.resource = o => MigratedAndRegistered(e)

\* C20, amended: in every pass, when the first instance of a dependent kind
\* is about to be read, every owner kind ahead of it in the order is
\* registered and has been dealt with: if the pass migrates the kind (the
\* driver asks for it, its new CRD has no status subresource, the fetch of
\* the CRD and the list succeeded), every source instance of it has been
\* looked up in the target group, and every instance whose lookup and create
\* did not fail has a counterpart in the target group and a record in the
\* registry; of a kind the pass does not migrate no instance was looked up.
C20_OwnersAttemptedFirst ==
    \A d \in DependentKinds :
        AboutToRead(d) =>
            \A o \in OwnersBefore(d) :
                /\ Tracked(tracker, KindOf(o))
                /\ \A e \in SourceEntries(store) :
                      e.resource = o =>
                          IF Asked(o) /\ ~HasStatus(o) /\ Listed(o)
                          THEN /\ ItemCalls(e) # {}
                               /\ (\A i \in FailedItemCalls : calls[i].src # e.obj) =>
                                      MigratedAndRegistered(e)
                          ELSE ItemCalls(e) = {}

\* the instances of a dependent kind are about to be read after two owner
\* kinds, each with an instance created in this pass
C20_Witness ==
    /\ AboutToRead("foo")
    /\ OwnersBefore("foo") = {"bar", "baz"}
    /\ \A o \in OwnersBefore("foo") :
          /\ \E i \in CallsOf("create", "ok") : calls[i].resource = o
          /\ \A e \in SourceEntries(store) : e.resource = o => MigratedAndRegistered(e)
    /\ \E e \in SourceEntries(store) : e.resource = "foo"

(***************************************************************************)
(* Properties of the sequence of the per-item steps                        *)
(***************************************************************************)
\* the existence checks and creates of the running pass, in order
ItemCallsOfPass == {i \in 1..Len(calls) : calls[i].op \in {"get", "create"}}

\* C21: in the calls of a pass, for every pair of the mapping, every
\* existence check and create of an instance of the owner kind comes before
\* the first one of an instance of the dependent kind; the calls of one item
\* are next to each other (a create follows the check of the same item at
\* once), so no item's step starts while another item's step is under way.
C21_OwnersBeforeDependentsInSequence ==
    /\ \A o \in DOMAIN m.updateOwnerRefMappings :
          \A i \in ItemCallsOfPass, j \in ItemCallsOfPass :
              (calls[i].resource = o /\ calls[j].resource = m.updateOwnerRefMappings[o]) =>
                  i < j
    /\ \A i \in ItemCallsOfPass :
          calls[i].op = "create" =>
              /\ i > 1
              /\ calls[i - 1].op = "get"
              /\ calls[i - 1].src = calls[i].src
    /\ \A i \in ItemCallsOfPass, j \in ItemCallsOfPass :
          (i < j /\ calls[i].src = calls[j].src /\ calls[i].resource = calls[j].resource) =>
              (j = i + 1 /\ calls[i].op = "get" /\ calls[j].op = "create")

\* a pass has checked and created two instances of an owner kind and then
\* an instance of its dependent kind
C21_Witness ==
    /\ PassReturned
    /\ \E o \in DOMAIN m.updateOwnerRefMappings :
          /\ Cardinality({i \in CallsOf("create", "ok") : calls[i].resource = o}) = 2
          /\ \E j \in CallsOf("create", "ok") :
                calls[j].resource = m.updateOwnerRefMappings[o]

(***************************************************************************)
(* Properties of the registrations of a pass                               *)
(***************************************************************************)
\* the registrations of the running pass, in order
Registrations == {i \in 1..Len(calls) : calls[i].op = "registerResource"}

\* C22: in the calls of a pass a kind is registered at most once, only
\* kinds that are keys of the owner mapping are registered, and the
\* registration of a kind comes before every existence check and create of
\* that kind; hence every record an item step of the pass has written for an
\* owner kind is still in the registry.
C22_RegisteredOnceBeforeItems ==
    /\ \A i \in Registrations, j \in Registrations :
          calls[i].resource = calls[j].resource => i = j
    /\ \A i \in Registrations : calls[i].resource \in DOMAIN m.updateOwnerRefMappings
    /\ \A i \in Registrations, j \in ItemCallsOfPass :
          calls[i].resource = calls[j].resource => i < j
    /\ \A j \in CallsOf("get", "found") \cup CallsOf("create", "ok") :
          calls[j].resource \in DOMAIN m.updateOwnerRefMappings =>
              /\ \E i \in Registrations : calls[i].resource = calls[j].resource
              /\ Recorded(tracker, KindOf(calls[j].resource), calls[j].name)

\* a pass has registered two owner kinds and has created an instance of
\* each of them
C22_Witness ==
    /\ PassReturned
    /\ \E i \in Registrations, j \in Registrations :
          /\ calls[i].resource # calls[j].resource
          /\ \E k \in CallsOf("create", "ok") : calls[k].resource = calls[i].resource
          /\ \E k \in CallsOf("create", "ok") : calls[k].resource = calls[j].resource

(***************************************************************************)
(* Properties of the records of the registry                               *)
(***************************************************************************)
\* the calls of the running pass after which registerCreatedItem is called:
\* a Get that found the item, a Create that succeeded
WritingCalls == CallsOf("get", "found") \cup CallsOf("create", "ok")

\* the step registers this kind
Registers(kind) ==
    \E i \in NewCalls : calls'[i].op = "registerResource" /\ KindOf(calls'[i].resource) = kind

\* while a pass runs, the step keeps every record of a kind it does not
\* register, and changes the registry only when it registers a kind, finds
\* an item in the target group or creates one
RecordsKept ==
    pc \in {"ordered", "remaining"} =>
        /\ \A k \in DOMAIN tracker.createdItemsByKind :
              ~Registers(k) =>
                  \A n \in DOMAIN tracker.createdItemsByKind[k] :
                      /\ Recorded(tracker', k, n)
                      /\ tracker'.createdItemsByKind[k][n] = tracker.createdItemsByKind[k][n]
        /\ tracker' # tracker =>
              \E i \in NewCalls :
                  \/ calls'[i].op = "registerResource"
                  \/ calls'[i].op = "get" /\ calls'[i].res = "found"
                  \/ calls'[i].op = "create" /\ calls'[i].res = "ok"

\* C23 as stated: within a pass a record, once written, is not written
\* again (same-named instances of several namespaces included), and records
\* are written only by the already-exists path and the create path.
C23_RecordWrittenOnce == [][RecordsKept]_vars

\* one pass has written the record of a kind and a name twice: for the
\* instance of one namespace and then for the instance of another, whose UID
\* is the one the record keeps
C23_Divergence ==
    \E i \in WritingCalls, j \in WritingCalls :
        /\ i < j
        /\ calls[i].resource = calls[j].resource
        /\ calls[i].name = calls[j].name
        /\ calls[i].out.namespace # calls[j].out.namespace
        /\ calls[i].out.uid # calls[j].out.uid
        /\ Recorded(tracker, KindOf(calls[j].resource), calls[j].name)
        /\ tracker.createdItemsByKind[KindOf(calls[j].resource)][calls[j].name].uid =
               calls[j].out.uid

\* the reference at this place of a prepared item differs from the source's
RewrittenAt(i, k) == calls[i].obj.ownerReferences[k] # calls[i].src.ownerReferences[k]

\* before this call the running pass has registered the kind and has written
\* a record for the kind and the name of a reference
RegisteredInPass(i, ref) ==
    \E r \in Registrations, w \in WritingCalls :
        /\ r < w /\ w < i
        /\ KindOf(calls[r].resource) = ref.kind
        /\ calls[w].resource = calls[r].resource
        /\ calls[w].name = ref.name

\* C24 as stated: the registry a pass starts with tracks no kind and holds
\* no record, and every reference a pass rewrites has its kind registered
\* and its record written earlier in the same pass.
C24_RegistryFreshEachPass ==
    /\ hist.startTracker.resourcesByKind = EmptyMap
    /\ hist.startTracker.createdItemsByKind = EmptyMap
    /\ \A i \in CallsOf("create", "ok") \cup CallsOf("create", "error") :
          \A k \in 1..Len(calls[i].src.ownerReferences) :
              RewrittenAt(i, k) => RegisteredInPass(i, calls[i].src.ownerReferences[k])

\* the second pass started with a record of the first pass and has created
\* an item with a reference rewritten from that record, before the pass
\* registered the kind of the reference
C24_Divergence ==
    /\ hist.passNo = 2
    /\ \E i \in CallsOf("create", "ok") :
          \E k \in 1..Len(calls[i].src.ownerReferences) :
              LET ref == calls[i].src.ownerReferences[k]
              IN  /\ RewrittenAt(i, k)
                  /\ ~RegisteredInPass(i, ref)
                  /\ ~\E r \in Registrations : r < i /\ KindOf(calls[r].resource) = ref.kind
                  /\ Recorded(hist.startTracker, ref.kind, ref.name)
                  /\ calls[i].obj.ownerReferences[k].uid =
                         hist.startTracker.createdItemsByKind[ref.kind][ref.name].uid

(***************************************************************************)
(* Properties of the pairs of --update-owner-refs                          *)
(***************************************************************************)
\* the parent:child pairs the flag supplies, as <<parent, child>>
SuppliedPairs ==
    {<<options.UpdateOwnerRefMappings[i][1], options.UpdateOwnerRefMappings[i][3]>> :
        i \in {k \in 1..Len(options.UpdateOwnerRefMappings) :
                 WellFormed(options.UpdateOwnerRefMappings[k])}}

\* C25 as stated: once the Migrator is built, every supplied pair is a pair
\* of the mapping the graph is built from, and in the calls of a pass the
\* owner of every supplied pair is registered, and all its instances are
\* checked and created, before the first check of an instance of the
\* dependent.
C25_EverySuppliedPairOrdered ==
    pc \in {"idle", "ordered", "remaining"} =>
        \A pair \in SuppliedPairs :
            /\ pair[1] \in DOMAIN m.updateOwnerRefMappings
            /\ m.updateOwnerRefMappings[pair[1]] = pair[2]
            /\ \A i \in ItemCallsOfPass, j \in ItemCallsOfPass :
                  (calls[i].resource = pair[1] /\ calls[j].resource = pair[2]) => i < j
            /\ \A j \in ItemCallsOfPass :
                  calls[j].resource = pair[2] =>
                      \E r \in Registrations : r < j /\ calls[r].resource = pair[1]

\* a supplied pair is not in the mapping, and a pass has created an instance
\* of its dependent, the reference to the owner left as in the source, before
\* it registered the owner and created the instance the reference names
C25_Divergence ==
    \E pair \in SuppliedPairs :
        /\ pair[1] \in DOMAIN m.updateOwnerRefMappings
        /\ m.updateOwnerRefMappings[pair[1]] # pair[2]
        /\ \E i \in CallsOf("create", "ok"), j \in CallsOf("create", "ok"), r \in Registrations :
              /\ i < r /\ r < j
              /\ calls[i].resource = pair[2]
              /\ calls[r].resource = pair[1]
              /\ calls[j].resource = pair[1]
              /\ \E k \in 1..Len(calls[i].src.ownerReferences) :
                    /\ calls[i].src.ownerReferences[k].apiVersion = m.oldGroupVersion
                    /\ calls[i].src.ownerReferences[k].kind = KindOf(pair[1])
                    /\ calls[i].src.ownerReferences[k].name = calls[j].name
                    /\ calls[i].out.ownerReferences[k] = calls[i].src.ownerReferences[k]

(***************************************************************************)
(* Properties of updateMapKeys on keys that several pairs match            *)
(***************************************************************************)
\* updateMapKeys has returned
UpdateMapKeysReturned == tt.fn = "updateMapKeys" /\ tt.returned

\* the key with the finds of both pairs replaced
BothReplaced(key, mappings, f1, f2) ==
    Replace(Replace(key, f1, mappings[f1]), f2, mappings[f2])

\* C26 as stated: when updateMapKeys has returned, for every key of the
\* input that contains the finds of two different pairs, the result holds
\* the key with both replacements, under the value of the input, and holds
\* neither the key of the input nor a key with one replacement only.
C26_BothReplacementsApplied ==
    UpdateMapKeysReturned =>
        LET data == tt.args.data
            mappings == tt.args.mappings
            out == tt.result.data
        IN  \A key \in DOMAIN data :
                \A f1 \in DOMAIN mappings, f2 \in DOMAIN mappings :
                    (f1 # f2 /\ Contains(key, f1) /\ Contains(key, f2)) =>
                        /\ BothReplaced(key, mappings, f1, f2) \in DOMAIN out
                        /\ out[BothReplaced(key, mappings, f1, f2)] = data[key]
                        /\ key \notin DOMAIN out
                        /\ Replace(key, f1, mappings[f1]) \notin DOMAIN out
                        /\ Replace(key, f2, mappings[f2]) \notin DOMAIN out

\* the one key "foo.io.baz.io" with the pairs foo.io:bar.io and baz.io:zoo.io
\* has come back as two keys, each with one replacement, and no key with both
C26_Divergence ==
    /\ UpdateMapKeysReturned
    /\ tt.args.data = (<<"foo.io", ".", "baz.io">> :> "v6")
    /\ tt.args.mappings = (<<"foo.io">> :> <<"bar.io">>) @@ (<<"baz.io">> :> <<"zoo.io">>)
    /\ tt.result.data = (<<"bar.io", ".", "baz.io">> :> "v6") @@
                        (<<"foo.io", ".", "zoo.io">> :> "v6")

\* both runs of updateMapKeys on the same input have returned
BothRunsReturned == tt.fn = "updateMapKeysTwice" /\ tt.returned

\* C27 as stated: two runs of updateMapKeys on equal maps with equal
\* mappings return equal maps, whatever the order in which the keys and the
\* pairs are visited.
C27_UpdateMapKeysDeterministic ==
    BothRunsReturned => tt.result[1] = tt.result[2]

\* with the pairs foo.io:bar.io and bar.io:zoo.io, where a replacement holds
\* the find of the other pair, the key "foo.io/a" has come back as
\* "bar.io/a" from one run and as "zoo.io/a" from the other
C27_Divergence ==
    /\ BothRunsReturned
    /\ tt.args.data = (<<"foo.io", "/a">> :> "v1")
    /\ tt.args.mappings = (<<"foo.io">> :> <<"bar.io">>) @@ (<<"bar.io">> :> <<"zoo.io">>)
    /\ tt.result[1].data = (<<"bar.io", "/a">> :> "v1")
    /\ tt.result[2].data = (<<"zoo.io", "/a">> :> "v1")

(***************************************************************************)
(* Properties of updateOwnerRefs called alone                              *)
(***************************************************************************)
UpdateOwnerRefsReturned == tt.fn = "updateOwnerRefs" /\ tt.returned

\* C28: when updateOwnerRefs has returned, the tracker tracks the kinds it
\* tracked before the call and holds, for each of them, the records it held
\* before the call, whatever the references of the item name.
C28_UpdateOwnerRefsReadsOnly ==
    UpdateOwnerRefsReturned =>
        /\ DOMAIN tt.result.c.createdItemsByKind = DOMAIN tt.args.c.createdItemsByKind
        /\ \A k \in DOMAIN tt.args.c.createdItemsByKind :
              tt.result.c.createdItemsByKind[k] = tt.args.c.createdItemsByKind[k]
        /\ tt.result.c.resourcesByKind = tt.args.c.resourcesByKind

\* updateOwnerRefs has returned for an item with a reference to a kind that
\* is not tracked, one to a tracked kind under a name with no record, and one
\* it has rewritten
C28_Witness ==
    /\ UpdateOwnerRefsReturned
    /\ \E i, j, k \in 1..Len(tt.args.item.ownerReferences) :
          /\ tt.args.item.ownerReferences[i].apiVersion = tt.args.c.oldGroupVersion
          /\ ~Tracked(tt.args.c, tt.args.item.ownerReferences[i].kind)
          /\ tt.args.item.ownerReferences[j].apiVersion = tt.args.c.oldGroupVersion
          /\ Tracked(tt.args.c, tt.args.item.ownerReferences[j].kind)
          /\ ~Recorded(tt.args.c, tt.args.item.ownerReferences[j].kind,
                       tt.args.item.ownerReferences[j].name)
          /\ tt.result.item.ownerReferences[k] # tt.args.item.ownerReferences[k]

\* C29: when updateOwnerRefs has returned, the item has as many references
\* as before the call, and the reference at each place is the one that was
\* at that place before the call, but for its apiVersion and its UID: same
\* kind, same name, same other fields.
C29_ReferencesKeptInPlace ==
    UpdateOwnerRefsReturned =>
        LET before == tt.args.item.ownerReferences
            after == tt.result.item.ownerReferences
        IN  /\ Len(after) = Len(before)
            /\ \A i \in 1..Len(before) :
                  /\ after[i].kind = before[i].kind
                  /\ after[i].name = before[i].name
                  /\ [after[i] EXCEPT !.apiVersion = before[i].apiVersion,
                                      !.uid = before[i].uid] = before[i]

\* updateOwnerRefs has returned for an item with three references: the
\* first two are as they were, the third, a controller reference, is
\* rewritten
C29_Witness ==
    /\ UpdateOwnerRefsReturned
    /\ Len(tt.args.item.ownerReferences) = 3
    /\ tt.result.item.ownerReferences[1] = tt.args.item.ownerReferences[1]
    /\ tt.result.item.ownerReferences[2] = tt.args.item.ownerReferences[2]
    /\ tt.args.item.ownerReferences[3].controller
    /\ tt.result.item.ownerReferences[3].apiVersion = tt.args.c.newGroupVersion
    /\ tt.result.item.ownerReferences[3].uid # tt.args.item.ownerReferences[3].uid

(***************************************************************************)
(* Properties of the kinds the registry tracks                             *)
(***************************************************************************)
\* the kinds of the keys of the owner mapping
OwnerKinds == {KindOf(o) : o \in (DOMAIN m.updateOwnerRefMappings) \cap {r.Name : r \in APIResources}}

\* the step has found or created an item of a kind the registry does not
\* track
UntrackedItemStep ==
    /\ ItemStep
    /\ calls'[Len(calls')].res \in {"found", "ok"}
    /\ ~Tracked(tracker, calls'[Len(calls')].src.kind)

\* C30: the registry tracks owner kinds only, in every state, and holds
\* records under tracked kinds only; the step that finds or creates an item
\* of a kind that is not tracked leaves the registry as it was and counts no
\* failure.
C30_OnlyOwnerKindsTracked ==
    /\ [](/\ DOMAIN tracker.createdItemsByKind \subseteq OwnerKinds
          /\ DOMAIN tracker.resourcesByKind = DOMAIN tracker.createdItemsByKind)
    /\ [][UntrackedItemStep => (tracker' = tracker /\ hist' = hist)]_vars

\* a pass that tracks an owner kind has returned after it created two
\* instances of a kind that is not an owner kind, and found or created an
\* instance of the owner kind
C30_Witness ==
    /\ PassReturned
    /\ tracker.createdItemsByKind # EmptyMap
    /\ \E i \in CallsOf("create", "ok"), j \in CallsOf("create", "ok") :
          /\ i # j
          /\ calls[i].src.kind = calls[j].src.kind
          /\ calls[i].src.kind \notin OwnerKinds
          /\ ~Tracked(tracker, calls[i].src.kind)
    /\ \E i \in WritingCalls : Recorded(tracker, calls[i].src.kind, calls[i].src.name)

(***************************************************************************)
(* Properties of the kinds a pass goes through                             *)
(***************************************************************************)
\* the names on either side of a pair of the mapping: the nodes of the graph
MappingNames ==
    (DOMAIN m.updateOwnerRefMappings)
    \cup {m.updateOwnerRefMappings[o] : o \in DOMAIN m.updateOwnerRefMappings}

\* the calls of migrateOneResource in the running pass: one Get of the new
\* CRD for each call
MigrateOneResourceCalls == {i \in 1..Len(calls) : calls[i].op = "getCRD"}

\* in the calls of a pass of MigrateAllResources no kind is migrated twice,
\* the kinds of the mapping come before the others, only kinds of the
\* mapping are registered, and a pass that has returned has migrated every
\* discovered kind
EveryKindOnce ==
    driver.fn = "MigrateAllResources" =>
        /\ \A i \in MigrateOneResourceCalls, j \in MigrateOneResourceCalls :
              /\ calls[i].resource = calls[j].resource => i = j
              /\ (calls[i].resource \in MappingNames /\ calls[j].resource \notin MappingNames) =>
                    i < j
        /\ \A i \in Registrations : calls[i].resource \in MappingNames
        /\ PassReturned =>
              \A name \in DOMAIN discovered :
                  \E i \in MigrateOneResourceCalls : calls[i].resource = name

\* a step of MigrateAllResources migrates a kind of the mapping in the first
\* loop and any other kind in the second, and registers in the first only
InItsPhase ==
    driver.fn = "MigrateAllResources" =>
        \A i \in NewCalls :
            /\ calls'[i].op = "getCRD" =>
                  (pc = "ordered") = (calls'[i].resource \in MappingNames)
            /\ calls'[i].op = "registerResource" => pc = "ordered"

\* C31: in a pass of MigrateAllResources every discovered kind is migrated
\* exactly once, the kinds named in the mapping in the ordered loop and every
\* other kind after them in the loop over the remaining kinds, and no kind of
\* the remaining loop is registered.
C31_EveryKindMigratedOnce == []EveryKindOnce /\ [][InItsPhase]_vars

\* a pass of MigrateAllResources has returned after it migrated two kinds of
\* the mapping, one of them registered, and then a kind that is not in the
\* mapping, whose instance it created
C31_Witness ==
    /\ PassReturned
    /\ driver.fn = "MigrateAllResources"
    /\ Cardinality(MappingNames) = 2
    /\ Registrations # {}
    /\ \E i \in CallsOf("create", "ok") : calls[i].resource \notin MappingNames
    /\ \E i \in CallsOf("create", "ok") : calls[i].resource \in MappingNames

\* the driver calls MigrateSomeResources with a set that is not nil
Filtered == driver.fn = "MigrateSomeResources" /\ ~driver.resourceSet.isNil

\* C32: in a pass of MigrateSomeResources with a set that is not nil, the
\* new CRD is fetched, the items listed, checked and created only for kinds
\* in the set, in the owner mapping or not; no kind is migrated twice, and a
\* pass that has returned has migrated every discovered kind of the set.
C32_OnlySelectedKindsMigrated ==
    Filtered =>
        /\ \A i \in 1..Len(calls) :
              calls[i].op \in {"getCRD", "list", "get", "create"} =>
                  calls[i].resource \in driver.resourceSet.set
        /\ \A i \in MigrateOneResourceCalls, j \in MigrateOneResourceCalls :
              calls[i].resource = calls[j].resource => i = j
        /\ PassReturned =>
              \A name \in (DOMAIN discovered) \cap driver.resourceSet.set :
                  \E i \in MigrateOneResourceCalls : calls[i].resource = name

\* a pass of MigrateSomeResources has returned: the set holds an owner kind,
\* registered and with an instance created, and a name that is not
\* discovered; the dependent kind is outside the set and has items in the
\* source group, none of them read
C32_Witness ==
    /\ PassReturned
    /\ Filtered
    /\ \E o \in (DOMAIN m.updateOwnerRefMappings) \cap driver.resourceSet.set :
          /\ m.updateOwnerRefMappings[o] \notin driver.resourceSet.set
          /\ \E i \in Registrations : calls[i].resource = o
          /\ \E i \in CallsOf("create", "ok") : calls[i].resource = o
          /\ \E e \in SourceEntries(store) : e.resource = m.updateOwnerRefMappings[o]
    /\ driver.resourceSet.set \ DOMAIN discovered # {}

(***************************************************************************)
(* Properties of the namespace of the per-item calls                       *)
(***************************************************************************)
\* C33: the Get and the Create of an item go to the client of the namespace
\* the configuration maps the item's source namespace to, the item handed to
\* Create carries that namespace, and so does the item the store returns; an
\* item with no namespace is checked and created with the client of no
\* namespace.
C33_OneTargetNamespace ==
    \A i \in ItemCallsOfPass :
        /\ calls[i].namespace = MappedNamespace(calls[i].src.namespace)
        /\ calls[i].src.namespace = "" => calls[i].namespace = ""
        /\ calls[i].op = "create" =>
              /\ calls[i - 1].namespace = calls[i].namespace
              /\ calls[i].obj.namespace = calls[i].namespace
              /\ calls[i].res = "ok" =>
                    /\ calls[i].out.namespace = calls[i].namespace
                    /\ \E e \in TargetEntries(store, calls[i].resource, calls[i].namespace,
                                              calls[i].name) : e.obj = calls[i].out

\* a pass with the mapping of "ns1" to "ns2" has created an item of "ns1" in
\* "ns2", has found in "ns2" the counterpart of another, and has created an
\* item that has no namespace
C33_Witness ==
    /\ PassReturned
    /\ \E i \in CallsOf("create", "ok") :
          calls[i].src.namespace = "ns1" /\ calls[i].out.namespace = "ns2"
    /\ \E i \in CallsOf("create", "ok") :
          calls[i].src.namespace = "" /\ calls[i].out.namespace = ""
    /\ \E i \in CallsOf("get", "found") : calls[i].namespace = "ns2"

(***************************************************************************)
(* Properties of the driver                                                *)
(***************************************************************************)
\* the step enters a pass: the first loop is at its first name and nothing
\* is called yet, or the checks before the first loop have ended the process
PassStarts ==
    /\ calls' = << >>
    /\ \/ /\ pc' = "ordered"
          /\ pass'.i = 1
          /\ ~pass'.busy
          /\ pass'.serverResourcesByName = discovered
       \/ /\ pc' = "exited"
          /\ pc \notin {"new", "exited"}

\* the step leaves a pass
PassReturns == hist'.passNo = hist.passNo + 1

\* the step calls the API server or the tracker of the Migrator
PassWorks == calls' # calls \/ store' # store \/ tracker' # tracker

\* a pass is entered only from the driver at rest, with no pass under way;
\* the calls, the creates and the registry updates between the start and the
\* return are those of that one pass; the return leaves no pass under way
OnePassAtATime ==
    /\ PassStarts => (pc = "idle" /\ pass = NoPass)
    /\ (PassWorks /\ ~PassStarts) =>
          /\ pc \in {"ordered", "remaining"}
          /\ pass.fn = driver.fn
          /\ hist'.passNo = hist.passNo
          /\ \A i \in 1..Len(calls) : calls'[i] = calls[i]
    /\ PassReturns => (pc = "remaining" /\ pc' = "idle" /\ pass' = NoPass /\ ~PassWorks)

\* C34: the driver starts a pass only after the pass before it has returned:
\* between the start and the return of a pass no other pass starts, and every
\* existence check, create and registry update in between belongs to that
\* pass.
C34_PassesDoNotOverlap == [][OnePassAtATime]_vars

\* the second pass is under way after the first has returned: it has found
\* an item the first created and has written its record
C34_Witness ==
    /\ hist.passNo = 1
    /\ pc \in {"ordered", "remaining"}
    /\ pass.busy
    /\ \E i \in CallsOf("get", "found") :
          /\ calls[i].out.uid >= 21
          /\ Recorded(tracker, calls[i].src.kind, calls[i].src.name)

(***************************************************************************)
(* Properties of the check before the create                               *)
(***************************************************************************)
\* the creates the running pass has issued, refused or not
IssuedCreates == {i \in 1..Len(calls) : calls[i].op = "create"}

\* in the calls of a pass every create comes right after a Get of the same
\* resource, namespace, name and item that answered not-found; a Get that
\* found the item or failed is followed by no create; an item has at most
\* one create
CreateAfterNotFound ==
    /\ \A i \in IssuedCreates :
          /\ i > 1
          /\ calls[i - 1].op = "get"
          /\ calls[i - 1].res = "notfound"
          /\ calls[i - 1].resource = calls[i].resource
          /\ calls[i - 1].namespace = calls[i].namespace
          /\ calls[i - 1].name = calls[i].name
          /\ calls[i - 1].src = calls[i].src
    /\ \A i \in CallsOf("get", "found") \cup CallsOf("get", "error") :
          i < Len(calls) => calls[i + 1].op # "create"
    /\ \A i \in IssuedCreates, j \in IssuedCreates :
          (calls[i].src = calls[j].src /\ calls[i].resource = calls[j].resource) => i = j

\* the step that issues a create has made the Get of the same item itself,
\* and the target group holds no item under that resource, namespace and
\* name when the step starts
CheckedInSameStep ==
    \A i \in NewCalls :
        calls'[i].op = "create" =>
            /\ i - 1 \in NewCalls
            /\ TargetEntries(store, calls'[i].resource, calls'[i].namespace,
                             calls'[i].name) = {}

\* C35: a create is issued only right after the Get for the same resource,
\* target namespace and name answered not-found, in the same per-item step;
\* no create follows a Get that found the item or failed with another
\* error, and a source item gets at most one create in a pass.
C35_CreateOnlyAfterNotFound == []CreateAfterNotFound /\ [][CheckedInSameStep]_vars

\* the second pass has returned: a call of the first pass had failed, and
\* the second has found an item the first created and has issued one create,
\* for an item whose Get answered not-found
C35_Witness ==
    /\ pc = "idle"
    /\ hist.passNo = 2
    /\ hist.failures = 1
    /\ CallsOf("get", "error") = {}
    /\ CallsOf("get", "found") # {}
    /\ Cardinality(IssuedCreates) = 1
    /\ CallsOf("create", "ok") # {}

(***************************************************************************)
(* MigrateSomeResources(nil) against MigrateAllResources                   *)
(***************************************************************************)
\* the second of the two calls has returned or has ended the process
PairFinished == secondCalled /\ (pc = "exited" \/ hist.passNo = 1)

\* the second call can go on with the inputs the first call had
PairMatched == secondCalled /\ ~PairFinished => ENABLED PairSecond

\* the second call made the calls of the first, in their order and with their
\* answers, and left the groups and the registry as the first left them
PairSameOutcome ==
    PairFinished =>
        LET first == tt.result[1]
        IN  /\ (pc = "exited") = first.exited
            /\ calls = first.calls
            /\ store = first.store
            /\ tracker = first.tracker

\* C36: called on the same inputs, with the same iteration orders and the
\* same answers of the API server, MigrateSomeResources with a nil inclusion
\* set and MigrateAllResources perform the same calls (registerResource, the
\* Get of the CRD, list, Get and Create of every item) in the same order of
\* kinds and leave the same items in the groups and the same registry:
\* whichever of the two is called first, the other can follow it step by
\* step and ends with the same history and state
C36_NilSetSameAsAllResources == PairMatched /\ PairSameOutcome

\* both orders of the two functions end on a history that registers an owner
\* kind and creates an item of an owner kind and of a kind outside the mapping
C36_Witness ==
    /\ PairFinished
    /\ driver = SomeNilArgs
    /\ tt.result[1].fn = "MigrateAllResources"
    /\ calls = tt.result[1].calls
    /\ \E k \in 1..Len(calls) : calls[k].op = "registerResource"
    /\ \E k \in 1..Len(calls) :
          /\ calls[k].op = "create" /\ calls[k].res = "ok"
          /\ calls[k].resource \in DOMAIN m.updateOwnerRefMappings
    /\ \E k \in 1..Len(calls) :
          /\ calls[k].op = "create" /\ calls[k].res = "ok"
          /\ calls[k].resource \notin MappingNames
    /\ \E k \in 1..Len(calls) : calls[k].op = "get" /\ calls[k].res = "found"
====
